---------------------------- MODULE TransmitPath ----------------------------
(***************************************************************************)
(* The transmit side of Transceiver.cpp.  Three threads share it:           *)
(*   - "tx", the transmit loop, pushes one burst per timeslot to the radio, *)
(*     ahead of the radio clock by the transmit latency;                    *)
(*   - "pq", the priority queue loop, takes bursts from the core's data     *)
(*     socket, queues them or writes them to the filler table, and tells    *)
(*     the core the time;                                                   *)
(*   - "ctl", the control loop, powers the transceiver on, sets the channel *)
(*     type of a timeslot and also tells the core the time.                 *)
(* The receive thread appears as the radio clock it advances.  Only the     *)
(* priority queue and the radio clock have a lock; every other variable is  *)
(* shared without one, so an action is one access to the shared state.      *)
(* A definition marked "Fault" is what a plausible mistake would make of    *)
(* the definition after it; no specification uses it.                       *)
(***************************************************************************)
EXTENDS GsmTime, FiniteSets

CONSTANTS
  Bursts, NoBurst,    \* names of radioVector objects on the heap
  Freed,              \* stands for the mTime of a deleted burst
  Modulus26, Modulus51, Modulus102,   \* filler multiframes: 26, 51 and 102
  InitialLatency,     \* frames of GsmTime(3, 0), given by runTransceiver
  UnderrunInterval,   \* frames of USB_LATENCY_INTRVL: GsmTime(10, 0)
  UpdateInterval,     \* frames of GsmTime(216, 0)
  Usrp1Window,        \* the device's window type is TX_WINDOW_USRP1
  SlotTypes,          \* channel types that SETSLOT may ask for
  Inputs              \* the other inputs that occur, see InputKinds

CONSTANTS             \* bounds of the model
  CommandSlots,       \* timeslots that SETSLOT may name
  MaxLag,             \* timeslots the deadline may be behind clock + latency
  BurstBehind, BurstAhead,  \* timeslots between a burst and the deadline
  MaxArrivals,        \* packets from the core while one slot is due
  MaxLatency          \* no underrun is reported from this many frames on

ChanTypes == {"FILL", "I", "II", "III", "IV", "V", "VI", "VII", "NONE",
              "LOOPBACK", "IGPRS"}
InputKinds == {"MALFORMED", "FILLER", "OTHER"}
FillerRows == 0 .. Modulus102 - 1
Moduli == {Modulus26, Modulus51, Modulus102}

ASSUME TransmitAssumption ==
  /\ NoBurst \notin Bursts /\ Freed \notin Times
  /\ GMaxTimeslots >= 2
  /\ Modulus26 \in 1 .. Modulus102 /\ Modulus51 \in 1 .. Modulus102
  /\ Modulus102 \in Nat
  /\ InitialLatency \in Frames /\ UnderrunInterval \in Frames
  /\ UpdateInterval \in Frames /\ 1 \in Frames
  /\ Usrp1Window \in BOOLEAN
  /\ SlotTypes \subseteq ChanTypes /\ Inputs \subseteq InputKinds
  /\ CommandSlots \subseteq Timeslots /\ MaxLag \in Nat /\ BurstBehind \in Nat /\ BurstAhead \in Nat
  /\ MaxArrivals \in Nat /\ MaxLatency \in Nat

VARIABLES
  clock,          \* RadioClock: the time being received
  underrun,       \* RadioInterface::m_underrun
  latency,        \* mTransmitLatency
  latencyUpdate,  \* mLatencyUpdateTime
  deadline,       \* mTransmitDeadlineClock
  lastUpdate,     \* mLastClockUpdateTime
  started,        \* the three other service threads run
  on,             \* mOn
  queue,          \* mTransmitPriorityQueue
  heap,           \* the bursts that are allocated, with their mTime
  filler,         \* fillerTable: "set" or "deleted"
  chanType,       \* mChanType
  modulus,        \* fillerModulus
  tx,             \* transmit thread: pc, sendVec, next, bursts mixed so far
  pq,             \* priority queue thread: pc and its flag "stale"
  ctl,            \* control thread: pc and the arguments of SETSLOT
  call,           \* the call of setFiller that each thread is in
  write,          \* the call of writeClockInterface that each thread is in
  arrivals        \* packets taken from the core in the slot that is due

radioVars == <<clock, underrun>>
latencyVars == <<latency, latencyUpdate>>
powerVars == <<started, on>>
slotVars == <<chanType, modulus>>
heapVars == <<queue, heap>>
vars == <<radioVars, latencyVars, powerVars, slotVars, heapVars, deadline,
          lastUpdate, filler, tx, pq, ctl, call, write, arrivals>>

FillerCallers == {"tx", "pq"}
ClockWriters == {"pq", "ctl"}

IdleCall == [step |-> "idle", burst |-> NoBurst, allocate |-> FALSE, row |-> 0]

(***************************************************************************)
(* incTN stores the deadline's fields one after the other: on the last      *)
(* timeslot of a frame a timeslot that does not exist, then timeslot 0,     *)
(* then the next frame.  An optimised build leaves out the first store and  *)
(* may exchange the other two.  The other threads see what is stored so     *)
(* far; the slot that is due is the one both fields will name.              *)
(***************************************************************************)
\* Fault: the timeslot counts on to the end of its field.
HalfAdvancedBeyond(t) == {Time(t.fn, GMaxTimeslots + 1)}

HalfAdvanced(t) ==
  {Time(t.fn, GMaxTimeslots), Time(t.fn, 0), Time(NextFrame(t.fn), t.tn)}
HalfTimes == [fn : Frames, tn : Timeslots \cup {GMaxTimeslots}]
FullyAdvanced(t) ==
  IF t.tn \in {0, GMaxTimeslots} THEN Time(NextFrame(t.fn), 0) ELSE Time(t.fn, 0)
DueSlot == IF tx.pc = "carry" THEN FullyAdvanced(deadline) ELSE deadline

Init ==
  /\ \E fn \in Frames : clock = Time(fn, 0)
  /\ deadline = clock /\ lastUpdate = clock /\ latencyUpdate = clock
  /\ latency = Time(InitialLatency, 0)
  /\ underrun = FALSE /\ started = FALSE /\ on = FALSE
  /\ queue = {} /\ heap = [b \in Bursts |-> Freed]
  /\ filler = [entry \in FillerRows \X Timeslots |-> "set"]
  /\ chanType = [tn \in Timeslots |-> "NONE"]
  /\ modulus = [tn \in Timeslots |-> Modulus26]
  /\ tx = [pc |-> "wait", vec |-> NoBurst, next |-> NoBurst, mix |-> {}]
  /\ pq = [pc |-> "read", stale |-> FALSE]
  /\ ctl = [pc |-> "read", tn |-> 0, type |-> "NONE"]
  /\ call = [c \in FillerCallers |-> IdleCall]
  /\ write = [w \in ClockWriters |-> "idle"]
  /\ arrivals = 0

-----------------------------------------------------------------------------
(* setFiller: a caller decides on the entry, deletes what is there, and     *)
(* stores the new waveform, without a lock.  A call that does not allocate  *)
(* gives its burst away: to the table, or to delete on a GPRS timeslot.     *)

\* Fault: the row is counted from one.
CallOnFromOne(c, b, t, allocate) ==
  [call EXCEPT ![c] = [step |-> "delete", burst |-> b, allocate |-> allocate,
                       row |-> (t.fn % modulus[t.tn]) + 1]]

CallOn(c, b, t, allocate) ==
  [call EXCEPT ![c] = [step |-> "delete", burst |-> b, allocate |-> allocate,
                       row |-> t.fn % modulus[t.tn]]]

Delete(b) == [heap EXCEPT ![b] = Freed]

\* Fault: the early return forgets to delete a burst that was given away.
BeginSetFillerLeak(b, allocate) ==
  IF chanType[heap[b].tn] = "IGPRS"
  THEN UNCHANGED <<heap, call>>
  ELSE /\ call' = CallOn("tx", b, heap[b], allocate)
       /\ UNCHANGED heap

\* The unforced call of the transmit thread, up to the deletion.
BeginSetFiller(b, allocate) ==
  IF chanType[heap[b].tn] = "IGPRS"
  THEN /\ heap' = IF allocate THEN heap ELSE Delete(b)
       /\ UNCHANGED call
  ELSE /\ call' = CallOn("tx", b, heap[b], allocate)
       /\ UNCHANGED heap

\* Fault: the modulus is read again for each access to the table.
EntryReread(c) ==
  LET t == heap[call[c].burst] IN <<t.fn % modulus[t.tn], t.tn>>

EntryOf(c) == <<call[c].row, heap[call[c].burst].tn>>

DeleteOldFiller(c) ==
  /\ call[c].step = "delete"
  /\ filler' = [filler EXCEPT ![EntryOf(c)] = "deleted"]
  /\ call' = [call EXCEPT ![c].step = "assign"]
  /\ UNCHANGED <<radioVars, latencyVars, powerVars, slotVars, heapVars,
                 deadline, lastUpdate, tx, pq, ctl, write, arrivals>>

StoreNewFiller(c) ==
  /\ call[c].step = "assign"
  /\ filler' = [filler EXCEPT ![EntryOf(c)] = "set"]
  /\ heap' = IF call[c].allocate THEN heap ELSE Delete(call[c].burst)
  /\ call' = [call EXCEPT ![c] = IdleCall]
  /\ UNCHANGED <<radioVars, latencyVars, powerVars, slotVars, queue,
                 deadline, lastUpdate, tx, pq, ctl, write, arrivals>>

-----------------------------------------------------------------------------
(* writeClockInterface formats the frame number, sends it, and notes the    *)
(* deadline of that later moment as the time of the update.                 *)

FormatIndication(w) == write' = [write EXCEPT ![w] = "send"]

SendIndication(w) ==
  /\ write[w] = "send"
  /\ write' = [write EXCEPT ![w] = "idle"]
  /\ lastUpdate' = deadline
  /\ UNCHANGED <<radioVars, latencyVars, powerVars, slotVars, heapVars,
                 deadline, filler, tx, pq, ctl, call, arrivals>>

-----------------------------------------------------------------------------
(* The transmit thread: driveTransmitFIFO and pushRadioVector.              *)

\* Fault: the comparison of the queue is turned around.
LatestOnTop == {b \in queue : \A c \in queue : ~Lt(heap[b], heap[c])}

\* The heads a priority_queue ordered by operator> can have.
Top == {b \in queue : \A c \in queue : ~Gt(heap[b], heap[c])}

\* What the receive thread and writeSamples leave in the underrun flag.
\* Neither holds a lock, so either may undo the other's write.
ReportedUnderruns ==
  IF Usrp1Window /\ latency.fn < MaxLatency THEN BOOLEAN ELSE {FALSE}

TxDue ==
  /\ tx.pc = "wait" /\ on
  /\ Gt(AddTime(clock, latency), deadline)
  /\ tx' = [tx EXCEPT !.pc = IF Usrp1Window THEN "adapt" ELSE "stale"]
  /\ UNCHANGED <<radioVars, latencyVars, powerVars, slotVars, heapVars,
                 deadline, lastUpdate, filler, pq, ctl, call, write, arrivals>>

\* isUnderrun clears the flag it returns.
TxAdaptLatency ==
  /\ tx.pc = "adapt"
  /\ underrun' = FALSE
  /\ LET raise == underrun /\ Gt(clock, AddTime(latencyUpdate, Time(UnderrunInterval, 0)))
         drop == ~underrun /\ Gt(latency, Time(1, 1))
                 /\ Gt(clock, AddTime(latencyUpdate, Time(UpdateInterval, 0)))
     IN /\ latency' = IF raise THEN AddTime(latency, Time(1, 0))
                      ELSE IF drop THEN DecTN(latency, 1) ELSE latency
        /\ latencyUpdate' = IF raise \/ drop THEN clock ELSE latencyUpdate
  /\ tx' = [tx EXCEPT !.pc = "stale"]
  /\ UNCHANGED <<clock, powerVars, slotVars, heapVars, deadline, lastUpdate,
                 filler, pq, ctl, call, write, arrivals>>

\* Fault: a burst that is due counts as stale.
TxDumpDue ==
  /\ tx.pc = "stale" /\ call["tx"].step = "idle"
  /\ \E b \in Top :
       /\ Le(heap[b], deadline)
       /\ queue' = queue \ {b}
       /\ BeginSetFiller(b, FALSE)
  /\ UNCHANGED <<radioVars, latencyVars, powerVars, slotVars, deadline,
                 lastUpdate, filler, tx, pq, ctl, write, arrivals>>

TxDumpStale ==
  /\ tx.pc = "stale" /\ call["tx"].step = "idle"
  /\ \E b \in Top :
       /\ Lt(heap[b], deadline)
       /\ queue' = queue \ {b}
       /\ BeginSetFiller(b, FALSE)
  /\ UNCHANGED <<radioVars, latencyVars, powerVars, slotVars, deadline,
                 lastUpdate, filler, tx, pq, ctl, write, arrivals>>

TxNoStale ==
  /\ tx.pc = "stale" /\ call["tx"].step = "idle"
  /\ queue = {} \/ \E b \in Top : ~Lt(heap[b], deadline)
  /\ tx' = [tx EXCEPT !.pc = "current"]
  /\ UNCHANGED <<radioVars, latencyVars, powerVars, slotVars, heapVars,
                 deadline, lastUpdate, filler, pq, ctl, call, write, arrivals>>

TxTakeCurrent ==
  /\ tx.pc = "current"
  /\ \E b \in Top :
       /\ heap[b] = deadline
       /\ queue' = queue \ {b}
       /\ BeginSetFiller(b, TRUE)
       /\ tx' = [tx EXCEPT !.pc = "combine", !.next = b]
  /\ UNCHANGED <<radioVars, latencyVars, powerVars, slotVars, deadline,
                 lastUpdate, filler, pq, ctl, write, arrivals>>

\* Fault: the burst that was mixed into the first one is not deleted.
TxCombineLeak ==
  /\ tx.pc = "combine" /\ call["tx"].step = "idle"
  /\ tx' = [pc |-> "current", next |-> NoBurst, mix |-> tx.mix \cup {tx.next},
            vec |-> IF tx.vec = NoBurst THEN tx.next ELSE tx.vec]
  /\ UNCHANGED <<radioVars, latencyVars, powerVars, slotVars, heapVars,
                 deadline, lastUpdate, filler, pq, ctl, call, write, arrivals>>

\* addVector mixes a second burst into the first and deletes it.
TxCombine ==
  /\ tx.pc = "combine" /\ call["tx"].step = "idle"
  /\ heap' = IF tx.vec = NoBurst THEN heap ELSE Delete(tx.next)
  /\ tx' = [pc |-> "current", next |-> NoBurst, mix |-> tx.mix \cup {tx.next},
            vec |-> IF tx.vec = NoBurst THEN tx.next ELSE tx.vec]
  /\ UNCHANGED <<radioVars, latencyVars, powerVars, slotVars, queue,
                 deadline, lastUpdate, filler, pq, ctl, call, write, arrivals>>

TxNoCurrent ==
  /\ tx.pc = "current"
  /\ queue = {} \/ \E b \in Top : heap[b] # deadline
  /\ tx' = [tx EXCEPT !.pc = IF tx.vec = NoBurst THEN "fill" ELSE "send"]
  /\ UNCHANGED <<radioVars, latencyVars, powerVars, slotVars, heapVars,
                 deadline, lastUpdate, filler, pq, ctl, call, write, arrivals>>

\* The table entry that stands in for a missing burst is copied.
FillerForSlot == <<deadline.fn % modulus[deadline.tn], deadline.tn>>

TxCopyFiller ==
  /\ tx.pc = "fill"
  /\ tx' = [tx EXCEPT !.pc = "send"]
  /\ UNCHANGED <<radioVars, latencyVars, powerVars, slotVars, heapVars,
                 deadline, lastUpdate, filler, pq, ctl, call, write, arrivals>>

\* driveTransmitRadio, delete sendVec, and the deadline's incTN.
TxSend ==
  /\ tx.pc = "send"
  /\ underrun' \in ReportedUnderruns
  /\ heap' = IF tx.vec = NoBurst THEN heap ELSE Delete(tx.vec)
  /\ LET advanced == IncTN(deadline, 1)
         carries == advanced.fn # deadline.fn
     IN /\ deadline' \in IF carries THEN HalfAdvanced(deadline) ELSE {advanced}
        /\ tx' = [pc |-> IF carries THEN "carry" ELSE "wait",
                  vec |-> NoBurst, next |-> NoBurst, mix |-> {}]
  /\ arrivals' = 0
  /\ UNCHANGED <<clock, latencyVars, powerVars, slotVars, queue,
                 lastUpdate, filler, pq, ctl, call, write>>

\* m_timeslot_number -= 8, where a store of its own came before it ...
TxWrap ==
  /\ tx.pc = "carry" /\ deadline.tn = GMaxTimeslots
  /\ deadline' = Time(deadline.fn, 0)
  /\ UNCHANGED <<radioVars, latencyVars, powerVars, slotVars, heapVars,
                 lastUpdate, filler, tx, pq, ctl, call, write, arrivals>>

\* ... and the store that is left then.
TxCarry ==
  /\ tx.pc = "carry" /\ deadline.tn # GMaxTimeslots
  /\ deadline' = FullyAdvanced(deadline)
  /\ tx' = [tx EXCEPT !.pc = "wait"]
  /\ UNCHANGED <<radioVars, latencyVars, powerVars, slotVars, heapVars,
                 lastUpdate, filler, pq, ctl, call, write, arrivals>>

TxNext == TxDue \/ TxAdaptLatency \/ TxDumpStale \/ TxNoStale \/ TxTakeCurrent
          \/ TxCombine \/ TxNoCurrent \/ TxCopyFiller \/ TxSend \/ TxWrap \/ TxCarry
          \/ DeleteOldFiller("tx") \/ StoreNewFiller("tx")

-----------------------------------------------------------------------------
(* The priority queue thread: driveTransmitPriorityQueue and its loop.      *)

PqIsReading ==
  started /\ pq.pc = "read" /\ write["pq"] = "idle" /\ arrivals < MaxArrivals

\* A packet of the wrong length: the loop remembers it and reads on.
PqMalformed ==
  /\ "MALFORMED" \in Inputs
  /\ PqIsReading /\ ~pq.stale
  /\ pq' = [pq EXCEPT !.stale = TRUE]
  /\ UNCHANGED <<radioVars, latencyVars, powerVars, slotVars, heapVars,
                 deadline, lastUpdate, filler, tx, ctl, call, write, arrivals>>

\* A packet arrives: first, the core is told the time if that is overdue.
PqReceive ==
  /\ PqIsReading
  /\ arrivals' = arrivals + 1
  /\ IF Gt(deadline, AddTime(lastUpdate, Time(UpdateInterval, 0)))
     THEN FormatIndication("pq")
     ELSE UNCHANGED write
  /\ pq' = [pq EXCEPT !.pc = "store"]
  /\ UNCHANGED <<radioVars, latencyVars, powerVars, slotVars, heapVars,
                 deadline, lastUpdate, filler, tx, ctl, call>>

\* fixRadioVector allocates a burst; it is queued, or goes to the filler
\* table when the packet carries SET_FILLER_FRAME.
PqStore ==
  /\ pq.pc = "store" /\ write["pq"] = "idle"
  /\ \E b \in Bursts \ tx.mix, t \in Times :
       /\ heap[b] = Freed
       /\ SlotsBetween(t, DueSlot) \in -BurstBehind .. BurstAhead
       /\ heap' = [heap EXCEPT ![b] = t]
       /\ \/ /\ "FILLER" \in Inputs
             /\ call' = CallOn("pq", b, t, FALSE)
             /\ UNCHANGED queue
          \/ /\ queue' = queue \cup {b}
             /\ UNCHANGED call
  /\ pq' = [pq EXCEPT !.pc = "stored"]
  /\ UNCHANGED <<radioVars, latencyVars, powerVars, slotVars, deadline,
                 lastUpdate, filler, tx, ctl, write, arrivals>>

\* After malformed packets, the core is reminded of the time.
PqStored ==
  /\ pq.pc = "stored" /\ call["pq"].step = "idle"
  /\ IF pq.stale THEN FormatIndication("pq") ELSE UNCHANGED write
  /\ pq' = [pc |-> "read", stale |-> FALSE]
  /\ UNCHANGED <<radioVars, latencyVars, powerVars, slotVars, heapVars,
                 deadline, lastUpdate, filler, tx, ctl, call, arrivals>>

PqReads == PqMalformed \/ PqReceive
PqWorks == PqStore \/ PqStored \/ SendIndication("pq")
           \/ DeleteOldFiller("pq") \/ StoreNewFiller("pq")

-----------------------------------------------------------------------------
(* The control thread: the part of driveControl the transmit path sees.     *)
(* Every command first tells the core the time.                             *)

CtlIsReading == ctl.pc = "read" /\ write["ctl"] = "idle"

\* A command that does nothing to the transmit path, or is refused.
CtlOtherCommand ==
  /\ "OTHER" \in Inputs
  /\ CtlIsReading
  /\ FormatIndication("ctl")
  /\ UNCHANGED <<radioVars, latencyVars, powerVars, slotVars, heapVars,
                 deadline, lastUpdate, filler, tx, pq, ctl, call, arrivals>>

\* POWERON on a tuned radio, and SETSLOT with a timeslot in range.
CtlCommand ==
  /\ CtlIsReading
  /\ FormatIndication("ctl")
  /\ \/ ~on /\ ctl' = [ctl EXCEPT !.pc = "poweron"]
     \/ \E tn \in CommandSlots, type \in SlotTypes :
          ctl' = [pc |-> "settype", tn |-> tn, type |-> type]
  /\ UNCHANGED <<radioVars, latencyVars, powerVars, slotVars, heapVars,
                 deadline, lastUpdate, filler, tx, pq, call, arrivals>>

\* The radio and the threads start, and the core is told the time again ...
CtlStartThreads ==
  /\ ctl.pc = "poweron" /\ write["ctl"] = "idle"
  /\ started' = TRUE
  /\ FormatIndication("ctl")
  /\ ctl' = [ctl EXCEPT !.pc = "turnon"]
  /\ UNCHANGED <<radioVars, latencyVars, on, slotVars, heapVars, deadline,
                 lastUpdate, filler, tx, pq, call, arrivals>>

\* ... before the transmit loop is let go.
CtlTurnOn ==
  /\ ctl.pc = "turnon" /\ write["ctl"] = "idle"
  /\ on' = TRUE
  /\ ctl' = [ctl EXCEPT !.pc = "read"]
  /\ UNCHANGED <<radioVars, latencyVars, started, slotVars, heapVars, deadline,
                 lastUpdate, filler, tx, pq, call, write, arrivals>>

CtlSetType ==
  /\ ctl.pc = "settype" /\ write["ctl"] = "idle"
  /\ chanType' = [chanType EXCEPT ![ctl.tn] = ctl.type]
  /\ ctl' = [ctl EXCEPT !.pc = "setmodulus"]
  /\ UNCHANGED <<radioVars, latencyVars, powerVars, modulus, heapVars, deadline,
                 lastUpdate, filler, tx, pq, call, write, arrivals>>

\* setModulus has no case for LOOPBACK.
ModulusFor(type, old) ==
  CASE type \in {"IV", "V", "VI"} -> Modulus51
    [] type = "VII" -> Modulus102
    [] type = "LOOPBACK" -> old
    [] OTHER -> Modulus26

CtlSetModulus ==
  /\ ctl.pc = "setmodulus"
  /\ modulus' = [modulus EXCEPT ![ctl.tn] = ModulusFor(chanType[ctl.tn], @)]
  /\ ctl' = [pc |-> "read", tn |-> 0, type |-> "NONE"]
  /\ UNCHANGED <<radioVars, latencyVars, powerVars, chanType, heapVars,
                 deadline, lastUpdate, filler, tx, pq, call, write, arrivals>>

CtlReads == CtlOtherCommand \/ CtlCommand
CtlWorks == CtlStartThreads \/ CtlTurnOn \/ CtlSetType \/ CtlSetModulus
            \/ SendIndication("ctl")

-----------------------------------------------------------------------------
\* The receive thread counts a received timeslot ...
Tick ==
  /\ started
  /\ SlotsBetween(AddTime(clock, latency), DueSlot) < MaxLag
  /\ clock' = IncTN(clock, 1)
  /\ UNCHANGED <<underrun, latencyVars, powerVars, slotVars, heapVars, deadline,
                 lastUpdate, filler, tx, pq, ctl, call, write, arrivals>>

\* ... and folds the device's underrun report into the flag.
ReportUnderrun ==
  /\ started
  /\ underrun' \in ReportedUnderruns
  /\ UNCHANGED <<clock, latencyVars, powerVars, slotVars, heapVars, deadline,
                 lastUpdate, filler, tx, pq, ctl, call, write, arrivals>>

Next == TxNext \/ PqReads \/ PqWorks \/ CtlReads \/ CtlWorks \/ Tick \/ ReportUnderrun

Spec == Init /\ [][Next]_vars

\* Every thread is scheduled and the radio delivers samples; the core may
\* stop sending packets and commands.
Fairness ==
  /\ WF_vars(TxNext) /\ WF_vars(PqWorks) /\ WF_vars(CtlWorks) /\ WF_vars(Tick)

FairSpec == Spec /\ Fairness

-----------------------------------------------------------------------------
TxPcs == {"wait", "adapt", "stale", "current", "combine", "fill", "send", "carry"}

\* Types: the half-written deadline, and what another thread copies of it, may
\* have the timeslot behind the last one; between two pushes the deadline is a
\* time of the standard, and a filler row is always inside the table.
TypeOK ==
  /\ clock \in Times /\ deadline \in HalfTimes /\ lastUpdate \in HalfTimes
  /\ tx.pc # "carry" => deadline \in Times
  /\ latencyUpdate \in Times /\ latency \in RawTimes
  /\ underrun \in BOOLEAN /\ started \in BOOLEAN /\ on \in BOOLEAN
  /\ queue \subseteq Bursts /\ heap \in [Bursts -> Times \cup {Freed}]
  /\ filler \in [FillerRows \X Timeslots -> {"set", "deleted"}]
  /\ chanType \in [Timeslots -> ChanTypes] /\ modulus \in [Timeslots -> Moduli]
  /\ tx \in [pc : TxPcs, vec : Bursts \cup {NoBurst}, next : Bursts \cup {NoBurst},
             mix : SUBSET Bursts]
  /\ pq \in [pc : {"read", "store", "stored"}, stale : BOOLEAN]
  /\ ctl \in [pc : {"read", "poweron", "turnon", "settype", "setmodulus"},
              tn : Timeslots, type : ChanTypes]
  /\ call \in [FillerCallers -> [step : {"idle", "delete", "assign"},
                                 burst : Bursts \cup {NoBurst},
                                 allocate : BOOLEAN, row : FillerRows]]
  /\ write \in [ClockWriters -> {"idle", "send"}]
  /\ arrivals \in 0 .. MaxArrivals

-----------------------------------------------------------------------------
\* Who may delete a burst: the queue, the transmit thread (through sendVec,
\* next or a stale burst on its way to the filler table), the other caller.
HeldByTx == ({tx.vec, tx.next} \cup {call["tx"].burst}) \ {NoBurst}
HeldByPq == {call["pq"].burst} \ {NoBurst}

\* Outside the filler table, every burst has exactly one owner and nobody owns
\* a deleted one; what is given to the table is known by its entry from then on.
HeldOnce ==
  /\ {b \in Bursts : heap[b] # Freed} = queue \cup HeldByTx \cup HeldByPq
  /\ queue \cap HeldByTx = {} /\ queue \cap HeldByPq = {}
  /\ HeldByTx \cap HeldByPq = {}
  /\ tx.next # NoBurst => tx.next # tx.vec

\* What the table owns is deleted once, and no pointer to it is written over
\* before: an entry is deleted while it is set, and stored while it is not.
TableOwnership ==
  \A c \in FillerCallers :
    /\ call[c].step = "delete" => filler[EntryOf(c)] = "set"
    /\ call[c].step = "assign" => filler[EntryOf(c)] = "deleted"

\* No burst leaks and none is deleted twice on its way from the core's packet
\* through the queue and the push, or into the filler table and out of it:
\* across setFiller's two conventions for "allocate", its early return on GPRS
\* timeslots and addVector (setFiller, pushRadioVector,
\* driveTransmitPriorityQueue).  It needs that the core sends no filler frames:
\* with them two threads are in setFiller, and may delete the same entry.
BurstOwnership == HeldOnce /\ TableOwnership

\* What makes it inductive: which step of its loop a thread is at while it
\* holds a burst or is inside setFiller.
HoldingDiscipline ==
  /\ tx.next # NoBurst <=> tx.pc = "combine"
  /\ tx.vec # NoBurst => tx.pc \in {"current", "combine", "send"}
  /\ \A c \in FillerCallers : call[c].step = "idle" <=> call[c].burst = NoBurst
  /\ call["tx"].step # "idle" =>
       IF call["tx"].allocate
       THEN tx.pc = "combine" /\ call["tx"].burst = tx.next
       ELSE tx.pc = "stale"
  /\ call["pq"].step # "idle" => ~call["pq"].allocate /\ pq.pc = "stored"

HeapInv == TypeOK /\ HoldingDiscipline /\ HeldOnce

\* No thread copies or deletes a filler waveform that another has deleted:
\* fillerTable is a "table of modulated filler waveforms for all timeslots"
\* (Transceiver.h), in use by two threads without a lock.
FillerEntryPresent ==
  /\ tx.pc = "fill" => filler[FillerForSlot] # "deleted"
  /\ \A c \in FillerCallers :
       call[c].step = "delete" => filler[EntryOf(c)] # "deleted"

\* The transmit loop never runs further ahead of the radio clock than the
\* latency allows; a latency that drops while a slot is pushed can leave it
\* one slot beyond (driveTransmitFIFO).
DeadlineWithinLatency ==
  SlotsBetween(AddTime(clock, latency), DueSlot) >= IF Usrp1Window THEN -1 ELSE 0

\* A due burst is passed over, and filler sent instead, only while a stale
\* burst stands before it in the queue: one that arrived after the stale
\* bursts were dumped (pushRadioVector; its comment "if queue contains data at
\* the desired timestamp, stick it into FIFO" leaves that exception out).
MissOnlyBehindStale ==
  [][TxNoCurrent => \/ \A b \in queue : heap[b] # deadline
                    \/ \E b \in queue : Lt(heap[b], deadline)]_vars

\* Every queued burst leaves the queue, as long as the radio's clock runs:
\* in its slot, or as a stale burst (driveTransmitFIFO, pushRadioVector).
QueueDrains == \A b \in Bursts : on /\ b \in queue ~> b \notin queue

\* The abstract specification: a burst is booked while it is in the queue
\* or part of the vector being put together for the slot; one that was mixed
\* into another there is deleted already.
Pending == queue \cup tx.mix \cup (IF tx.pc = "combine" THEN {tx.next} ELSE {})

Schedule == INSTANCE TransmitSchedule
  WITH slot <- DueSlot, booked <- [b \in Pending |-> IF heap[b] = Freed THEN DueSlot ELSE heap[b]]

\* The transmit path serves the slots in order and sends a burst in its own
\* slot or drops it late (TransmitSchedule).
ImplementsSchedule == Schedule!Spec
=============================================================================
