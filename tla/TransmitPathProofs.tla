-------------------------- MODULE TransmitPathProofs --------------------------
(***************************************************************************)
(* What holds of the transmit path for every pool of bursts, hyperframe,    *)
(* latency and bound.  Types and ownership are proved together: that a      *)
(* queued burst still has a time is an ownership fact, and without it the   *)
(* filler row computed from that time need not be a row.                    *)
(***************************************************************************)
EXTENDS TransmitPath, GsmTimeProofs

USE GsmTimeAssumption, TransmitAssumption

\* Frames of a constant and a timeslot of the standard make a time.
LEMMA TimeOfFrames == ASSUME NEW fn \in Frames PROVE Time(fn, 0) \in Times
  BY DEF Time, Times, Timeslots

LEMMA RowInTable == ASSUME NEW t \in Times, NEW m \in Moduli
                    PROVE  t.fn % m \in FillerRows
<1>1. m \in Nat /\ m > 0 /\ m <= Modulus102  BY DEF Moduli
<1>2. t.fn \in Int  BY DEF Times, Frames
<1>3. t.fn % m \in 0 .. m - 1  BY <1>1, <1>2, ModIsBelow
<1>4. QED  BY <1>1, <1>3 DEF FillerRows

LEMMA ModulusForType == ASSUME NEW type \in ChanTypes, NEW old \in Moduli
                        PROVE  ModulusFor(type, old) \in Moduli
  BY DEF ModulusFor, Moduli

LEMMA HalfAdvancedType == ASSUME NEW t \in Times PROVE HalfAdvanced(t) \subseteq HalfTimes
  BY NextFrameType DEF HalfAdvanced, HalfTimes, Time, Times, Timeslots

LEMMA TimesAreHalfTimes == Times \subseteq HalfTimes
  BY DEF Times, HalfTimes

LEMMA FullyAdvancedType == ASSUME NEW t \in HalfTimes PROVE FullyAdvanced(t) \in Times
  BY NextFrameType DEF FullyAdvanced, HalfTimes, Time, Times, Timeslots

LEMMA FormatIndicationType ==
  ASSUME NEW w \in ClockWriters, TypeOK, FormatIndication(w)
  PROVE  write' \in [ClockWriters -> {"idle", "send"}]
  BY DEF TypeOK, FormatIndication

\* The invariant holds when the transceiver is constructed.
LEMMA InitHeapInv == Init => HeapInv
<1> SUFFICES ASSUME Init PROVE HeapInv
  OBVIOUS
<1>1. PICK fn \in Frames : clock = Time(fn, 0)  BY DEF Init
<1>2. clock \in Times  BY <1>1, TimeOfFrames
<1>3. latency \in RawTimes  BY TimeOfFrames, TimesAreRaw DEF Init
<1>4. 0 \in Timeslots /\ 0 \in FillerRows  BY DEF Timeslots, FillerRows
<1>5. TypeOK
  <2>1. /\ deadline \in Times /\ latencyUpdate \in Times
        /\ deadline \in HalfTimes /\ lastUpdate \in HalfTimes
        /\ queue \subseteq Bursts /\ arrivals \in 0 .. MaxArrivals
    BY <1>2, TimesAreHalfTimes DEF Init
  <2>8. underrun \in BOOLEAN /\ started \in BOOLEAN /\ on \in BOOLEAN
    BY DEF Init
  <2>9. heap \in [Bursts -> Times \cup {Freed}]
    BY DEF Init
  <2>2. filler \in [FillerRows \X Timeslots -> {"set", "deleted"}]
    BY DEF Init
  <2>3. chanType \in [Timeslots -> ChanTypes] /\ modulus \in [Timeslots -> Moduli]
    BY DEF Init, ChanTypes, Moduli
  <2>4. /\ tx \in [pc : TxPcs, vec : Bursts \cup {NoBurst},
                  next : Bursts \cup {NoBurst}, mix : SUBSET Bursts]
        /\ pq \in [pc : {"read", "store", "stored"}, stale : BOOLEAN]
        /\ ctl \in [pc : {"read", "poweron", "turnon", "settype", "setmodulus"},
                   tn : Timeslots, type : ChanTypes]
    BY <1>4 DEF Init, TxPcs, ChanTypes
  <2>5. call \in [FillerCallers -> [step : {"idle", "delete", "assign"},
                                   burst : Bursts \cup {NoBurst},
                                   allocate : BOOLEAN, row : FillerRows]]
    BY <1>4 DEF Init, IdleCall
  <2>6. write \in [ClockWriters -> {"idle", "send"}]
    BY DEF Init
  <2>7. QED  BY <1>2, <1>3, <2>1, <2>2, <2>3, <2>4, <2>5, <2>6, <2>8, <2>9 DEF TypeOK
<1>6. HoldingDiscipline
  BY DEF Init, HoldingDiscipline, IdleCall, FillerCallers
<1>7. HeldOnce
  BY DEF Init, HeldOnce, HeldByTx, HeldByPq, IdleCall, FillerCallers
<1>8. QED  BY <1>5, <1>6, <1>7 DEF HeapInv

LEMMA TxDueHeapInv == HeapInv /\ TxDue => HeapInv'
<1> SUFFICES ASSUME HeapInv, TxDue PROVE HeapInv'
  OBVIOUS
<1> USE DEF HeapInv, radioVars, latencyVars, powerVars, slotVars, heapVars, TxDue
<1>1. TypeOK'  BY DEF TypeOK, TxPcs
<1>2. HoldingDiscipline'  BY DEF TypeOK, HoldingDiscipline
<1>3. HeldOnce'  BY DEF TypeOK, HeldOnce, HeldByTx, HeldByPq
<1>4. QED  BY <1>1, <1>2, <1>3

LEMMA TxDumpStaleHeapInv == HeapInv /\ TxDumpStale => HeapInv'
<1> SUFFICES ASSUME HeapInv, TxDumpStale PROVE HeapInv'
  OBVIOUS
<1> USE DEF HeapInv, radioVars, latencyVars, powerVars, slotVars, heapVars
<1>1. PICK b \in Top : /\ queue' = queue \ {b}
                       /\ BeginSetFiller(b, FALSE)
  BY DEF TxDumpStale
<1>2. b \in queue /\ b \in Bursts /\ b # NoBurst  BY DEF Top, TypeOK
<1>3. heap[b] \in Times  BY <1>2 DEF TypeOK, HeldOnce
<1>4. heap[b].fn % modulus[heap[b].tn] \in FillerRows
  BY <1>3, RowInTable DEF TypeOK, Times
<1>5. /\ tx.vec = NoBurst /\ tx.next = NoBurst /\ call["tx"].burst = NoBurst
      /\ HeldByTx = {}
  BY DEF TxDumpStale, HoldingDiscipline, FillerCallers, HeldByTx
<1>6. CASE chanType[heap[b].tn] = "IGPRS"
  <2>1. heap' = [heap EXCEPT ![b] = Freed] /\ call' = call
    BY <1>1, <1>6 DEF BeginSetFiller, Delete
  <2>2. TypeOK'  BY <1>1, <2>1 DEF TypeOK, TxDumpStale
  <2>3. HoldingDiscipline'  BY <2>1 DEF HoldingDiscipline, TxDumpStale
  <2>4. HeldOnce'
    BY <1>1, <1>2, <1>3, <1>5, <2>1 DEF TypeOK, HeldOnce, HeldByTx, HeldByPq, TxDumpStale
  <2>5. QED  BY <2>2, <2>3, <2>4
<1>7. CASE chanType[heap[b].tn] # "IGPRS"
  <2>1. heap' = heap /\ call' = CallOn("tx", b, heap[b], FALSE)
    BY <1>1, <1>7 DEF BeginSetFiller
  <2>2. TypeOK'
    BY <1>1, <1>2, <1>4, <2>1 DEF TypeOK, TxDumpStale, CallOn, FillerCallers
  <2>3. HoldingDiscipline'
    BY <1>2, <1>5, <2>1 DEF TypeOK, HoldingDiscipline, TxDumpStale, CallOn, FillerCallers
  <2>4. HeldOnce'
    BY <1>1, <1>2, <1>3, <1>5, <2>1
    DEF TypeOK, HeldOnce, HeldByTx, HeldByPq, TxDumpStale, CallOn, FillerCallers
  <2>5. QED  BY <2>2, <2>3, <2>4
<1>8. QED  BY <1>6, <1>7

LEMMA TxTakeCurrentHeapInv == HeapInv /\ TxTakeCurrent => HeapInv'
<1> SUFFICES ASSUME HeapInv, TxTakeCurrent PROVE HeapInv'
  OBVIOUS
<1> USE DEF HeapInv, radioVars, latencyVars, powerVars, slotVars, heapVars
<1>1. PICK b \in Top : /\ queue' = queue \ {b}
                       /\ BeginSetFiller(b, TRUE)
                       /\ tx' = [tx EXCEPT !.pc = "combine", !.next = b]
  BY DEF TxTakeCurrent
<1>2. b \in queue /\ b \in Bursts /\ b # NoBurst  BY DEF Top, TypeOK
<1>3. heap[b] \in Times  BY <1>2 DEF TypeOK, HeldOnce
<1>4. heap[b].fn % modulus[heap[b].tn] \in FillerRows
  BY <1>3, RowInTable DEF TypeOK, Times
<1>5. /\ tx.next = NoBurst /\ call["tx"].burst = NoBurst /\ call["tx"].step = "idle"
      /\ HeldByTx = {tx.vec} \ {NoBurst} /\ heap' = heap
  BY <1>1 DEF TxTakeCurrent, HoldingDiscipline, FillerCallers, HeldByTx, BeginSetFiller
<1>6. /\ tx'.pc = "combine" /\ tx'.next = b /\ tx'.vec = tx.vec
      /\ tx' \in [pc : TxPcs, vec : Bursts \cup {NoBurst},
                  next : Bursts \cup {NoBurst}, mix : SUBSET Bursts]
  BY <1>1, <1>2 DEF TypeOK, TxPcs
<1>7. CASE chanType[heap[b].tn] = "IGPRS"
  <2>1. call' = call  BY <1>1, <1>7 DEF BeginSetFiller
  <2>2. TypeOK'  BY <1>1, <1>5, <1>6, <2>1 DEF TypeOK, TxTakeCurrent
  <2>3. HoldingDiscipline'
    BY <1>2, <1>5, <1>6, <2>1 DEF HoldingDiscipline, TxTakeCurrent
  <2>4. HeldOnce'
    BY <1>1, <1>2, <1>3, <1>5, <1>6, <2>1
    DEF TypeOK, HeldOnce, HeldByTx, HeldByPq, TxTakeCurrent
  <2>5. QED  BY <2>2, <2>3, <2>4
<1>8. CASE chanType[heap[b].tn] # "IGPRS"
  <2>1. call' = CallOn("tx", b, heap[b], TRUE)  BY <1>1, <1>8 DEF BeginSetFiller
  <2>2. TypeOK'
    BY <1>1, <1>2, <1>4, <1>5, <1>6, <2>1 DEF TypeOK, TxTakeCurrent, CallOn, FillerCallers
  <2>3. HoldingDiscipline'
    BY <1>2, <1>5, <1>6, <2>1 DEF TypeOK, HoldingDiscipline, TxTakeCurrent, CallOn, FillerCallers
  <2>4. HeldOnce'
    BY <1>1, <1>2, <1>3, <1>5, <1>6, <2>1
    DEF TypeOK, HeldOnce, HeldByTx, HeldByPq, TxTakeCurrent, CallOn, FillerCallers
  <2>5. QED  BY <2>2, <2>3, <2>4
<1>9. QED  BY <1>7, <1>8

LEMMA TxCombineHeapInv == HeapInv /\ TxCombine => HeapInv'
<1> SUFFICES ASSUME HeapInv, TxCombine PROVE HeapInv'
  OBVIOUS
<1> USE DEF HeapInv, radioVars, latencyVars, powerVars, slotVars, heapVars, TxCombine
<1>1. /\ tx.next \in Bursts /\ tx.next # NoBurst
      /\ call["tx"].burst = NoBurst
  BY DEF TypeOK, HoldingDiscipline, FillerCallers
<1>2. /\ tx'.pc = "current" /\ tx'.next = NoBurst
      /\ tx'.vec = IF tx.vec = NoBurst THEN tx.next ELSE tx.vec
  OBVIOUS
<1>3. TypeOK'  BY <1>1 DEF TypeOK, TxPcs, Delete
<1>4. HoldingDiscipline'  BY <1>1, <1>2 DEF HoldingDiscipline
<1>5. HeldOnce'
  BY <1>1, <1>2 DEF TypeOK, HeldOnce, HeldByTx, HeldByPq, Delete
<1>6. QED  BY <1>3, <1>4, <1>5

LEMMA TxSendHeapInv == HeapInv /\ TxSend => HeapInv'
<1> SUFFICES ASSUME HeapInv, TxSend PROVE HeapInv'
  OBVIOUS
<1> USE DEF HeapInv, radioVars, latencyVars, powerVars, slotVars, heapVars, TxSend
<1>1. tx.next = NoBurst /\ call["tx"].burst = NoBurst /\ call["tx"].step = "idle"
  BY DEF TypeOK, HoldingDiscipline, FillerCallers
<1>2. /\ tx'.pc \in {"carry", "wait"} /\ tx'.next = NoBurst /\ tx'.vec = NoBurst
      /\ tx' \in [pc : TxPcs, vec : Bursts \cup {NoBurst},
                  next : Bursts \cup {NoBurst}, mix : SUBSET Bursts]
  BY DEF TxPcs
<1>3. deadline' \in HalfTimes /\ (tx'.pc # "carry" => deadline' \in Times)
  <2>1. deadline \in Times /\ IncTN(deadline, 1) \in Times  BY IncTNType DEF TypeOK
  <2>2. \/ tx'.pc = "carry" /\ deadline' \in HalfAdvanced(deadline)
        \/ tx'.pc = "wait" /\ deadline' = IncTN(deadline, 1)
    OBVIOUS
  <2>3. QED  BY <2>1, <2>2, HalfAdvancedType, TimesAreHalfTimes
<1>4. underrun' \in BOOLEAN  BY DEF ReportedUnderruns
<1>5. heap' \in [Bursts -> Times \cup {Freed}]  BY DEF TypeOK, Delete
<1>6. TypeOK'  BY <1>2, <1>3, <1>4, <1>5 DEF TypeOK
<1>7. HoldingDiscipline'  BY <1>1, <1>2 DEF HoldingDiscipline
<1>8. HeldOnce'
  BY <1>1, <1>2 DEF TypeOK, HeldOnce, HeldByTx, HeldByPq, Delete
<1>9. QED  BY <1>6, <1>7, <1>8

LEMMA PqStoreHeapInv == HeapInv /\ PqStore => HeapInv'
<1> SUFFICES ASSUME HeapInv, PqStore PROVE HeapInv'
  OBVIOUS
<1> USE DEF HeapInv, radioVars, latencyVars, powerVars, slotVars, heapVars
<1>1. PICK b \in Bursts, t \in Times :
        /\ heap[b] = Freed
        /\ heap' = [heap EXCEPT ![b] = t]
        /\ \/ call' = CallOn("pq", b, t, FALSE) /\ queue' = queue
           \/ queue' = queue \cup {b} /\ call' = call
  BY DEF PqStore
<1>2. /\ b # NoBurst /\ t # Freed
      /\ b \notin queue /\ b \notin HeldByTx /\ b \notin HeldByPq
  BY <1>1 DEF HeldOnce
<1>3. t.fn % modulus[t.tn] \in FillerRows  BY RowInTable DEF TypeOK, Times
<1>4. call["pq"].step = "idle" /\ call["pq"].burst = NoBurst
  BY DEF PqStore, HoldingDiscipline, FillerCallers, TypeOK
<1>5. CASE call' = CallOn("pq", b, t, FALSE) /\ queue' = queue
  <2>1. TypeOK'
    BY <1>1, <1>3, <1>5 DEF TypeOK, PqStore, CallOn, FillerCallers
  <2>2. HoldingDiscipline'
    BY <1>2, <1>5 DEF TypeOK, HoldingDiscipline, PqStore, CallOn, FillerCallers
  <2>3. HeldOnce'
    BY <1>1, <1>2, <1>4, <1>5
    DEF TypeOK, HeldOnce, HeldByTx, HeldByPq, PqStore, CallOn, FillerCallers
  <2>4. QED  BY <2>1, <2>2, <2>3
<1>6. CASE queue' = queue \cup {b} /\ call' = call
  <2>1. TypeOK'  BY <1>1, <1>6 DEF TypeOK, PqStore
  <2>2. HoldingDiscipline'  BY <1>4, <1>6 DEF HoldingDiscipline, PqStore, FillerCallers
  <2>3. HeldOnce'
    BY <1>1, <1>2, <1>4, <1>6 DEF TypeOK, HeldOnce, HeldByTx, HeldByPq, PqStore
  <2>4. QED  BY <2>1, <2>2, <2>3
<1>7. QED  BY <1>1, <1>5, <1>6

\* The two later steps of setFiller, for either caller.
LEMMA DeleteOldFillerHeapInv ==
  ASSUME NEW c \in FillerCallers, HeapInv, DeleteOldFiller(c) PROVE HeapInv'
<1> USE DEF HeapInv, radioVars, latencyVars, powerVars, slotVars, heapVars, DeleteOldFiller
<1>1. TypeOK'
  <2>1. filler' \in [FillerRows \X Timeslots -> {"set", "deleted"}]
    BY DEF TypeOK
  <2> DEFINE CallType == [step : {"idle", "delete", "assign"},
                          burst : Bursts \cup {NoBurst},
                          allocate : BOOLEAN, row : FillerRows]
  <2>2. call \in [FillerCallers -> CallType] /\ call' = [call EXCEPT ![c].step = "assign"]
    BY DEF TypeOK
  <2>3. [call[c] EXCEPT !.step = "assign"] \in CallType
    <3>1. call[c] \in CallType  BY <2>2
    <3> HIDE DEF DeleteOldFiller, HeapInv
    <3>2. QED  BY <3>1
  <2>4. call' \in [FillerCallers -> CallType]
    <3> HIDE DEF DeleteOldFiller, HeapInv, CallType
    <3>1. QED  BY <2>2, <2>3
  <2>5. QED  BY <2>1, <2>4 DEF TypeOK
<1>2. HoldingDiscipline'  BY DEF TypeOK, HoldingDiscipline, FillerCallers
<1>3. HeldOnce'  BY DEF TypeOK, HeldOnce, HeldByTx, HeldByPq, FillerCallers
<1>4. QED  BY <1>1, <1>2, <1>3

LEMMA StoreNewFillerHeapInv ==
  ASSUME NEW c \in FillerCallers, HeapInv, StoreNewFiller(c) PROVE HeapInv'
<1> USE DEF HeapInv, radioVars, latencyVars, powerVars, slotVars, heapVars, StoreNewFiller
<1>1. call[c].burst \in Bursts  BY DEF TypeOK, HoldingDiscipline
<1>2. call' = [call EXCEPT ![c] = IdleCall] /\ IdleCall.burst = NoBurst
      /\ IdleCall.step = "idle"
  BY DEF IdleCall
<1>3. TypeOK'
  <2>1. 0 \in FillerRows  BY DEF FillerRows
  <2>2. call' \in [FillerCallers -> [step : {"idle", "delete", "assign"},
                                    burst : Bursts \cup {NoBurst},
                                    allocate : BOOLEAN, row : FillerRows]]
    BY <2>1 DEF TypeOK, IdleCall
  <2>3. heap' \in [Bursts -> Times \cup {Freed}]  BY DEF TypeOK, Delete
  <2>4. filler' \in [FillerRows \X Timeslots -> {"set", "deleted"}]
    BY DEF TypeOK
  <2>5. QED  BY <2>2, <2>3, <2>4 DEF TypeOK
<1>4. HoldingDiscipline'  BY <1>2 DEF TypeOK, HoldingDiscipline, FillerCallers
<1>5. HeldOnce'
  <2>1. CASE call[c].allocate
    <3>1. c = "tx" /\ call["tx"].burst = tx.next /\ heap' = heap
      BY <2>1 DEF HoldingDiscipline, FillerCallers
    <3>2. QED  BY <1>1, <1>2, <3>1 DEF TypeOK, HeldOnce, HeldByTx, HeldByPq, FillerCallers
  <2>2. CASE ~call[c].allocate
    <3>1. heap' = [heap EXCEPT ![call[c].burst] = Freed]  BY <2>2 DEF Delete
    <3>2. c = "tx" => tx.vec = NoBurst /\ tx.next = NoBurst
      BY <2>2 DEF HoldingDiscipline, FillerCallers
    <3>3. QED
      BY <1>1, <1>2, <3>1, <3>2 DEF TypeOK, HeldOnce, HeldByTx, HeldByPq, FillerCallers
  <2>3. QED  BY <2>1, <2>2
<1>6. QED  BY <1>3, <1>4, <1>5

LEMMA TxAdaptLatencyHeapInv == HeapInv /\ TxAdaptLatency => HeapInv'
<1> SUFFICES ASSUME HeapInv, TxAdaptLatency PROVE HeapInv'
  OBVIOUS
<1> USE DEF HeapInv, radioVars, latencyVars, powerVars, slotVars, heapVars, TxAdaptLatency
<1>1. TypeOK'
  <2>1. latency \in RawTimes /\ clock \in Times /\ latencyUpdate \in Times
    BY DEF TypeOK
  <2>2. Time(1, 0) \in RawTimes
    BY TimesAreRaw, TimeOfFrames
  <2>3. AddTime(latency, Time(1, 0)) \in RawTimes
    BY <2>1, <2>2, AddTimeType, TimesAreRaw
  <2>4. DecTN(latency, 1) \in RawTimes
    BY <2>1, DecTNType
  <2>5. latency' \in RawTimes
    BY <2>1, <2>3, <2>4
  <2>6. latencyUpdate' \in Times
    BY <2>1
  <2>7. tx' \in [pc : TxPcs, vec : Bursts \cup {NoBurst},
                next : Bursts \cup {NoBurst}, mix : SUBSET Bursts]
    BY DEF TypeOK, TxPcs
  <2>8. QED  BY <2>5, <2>6, <2>7 DEF TypeOK
<1>2. HoldingDiscipline'  BY DEF TypeOK, HoldingDiscipline
<1>3. HeldOnce'  BY DEF TypeOK, HeldOnce, HeldByTx, HeldByPq
<1>4. QED  BY <1>1, <1>2, <1>3

LEMMA TxNoStaleHeapInv == HeapInv /\ TxNoStale => HeapInv'
<1> SUFFICES ASSUME HeapInv, TxNoStale PROVE HeapInv'
  OBVIOUS
<1> USE DEF HeapInv, radioVars, latencyVars, powerVars, slotVars, heapVars, TxNoStale
<1>1. TypeOK'  BY DEF TypeOK, TxPcs
<1>2. HoldingDiscipline'  BY DEF TypeOK, HoldingDiscipline
<1>3. HeldOnce'  BY DEF TypeOK, HeldOnce, HeldByTx, HeldByPq
<1>4. QED  BY <1>1, <1>2, <1>3

LEMMA TxNoCurrentHeapInv == HeapInv /\ TxNoCurrent => HeapInv'
<1> SUFFICES ASSUME HeapInv, TxNoCurrent PROVE HeapInv'
  OBVIOUS
<1> USE DEF HeapInv, radioVars, latencyVars, powerVars, slotVars, heapVars, TxNoCurrent
<1>1. TypeOK'  BY DEF TypeOK, TxPcs
<1>2. HoldingDiscipline'  BY DEF TypeOK, HoldingDiscipline
<1>3. HeldOnce'  BY DEF TypeOK, HeldOnce, HeldByTx, HeldByPq
<1>4. QED  BY <1>1, <1>2, <1>3

LEMMA TxCopyFillerHeapInv == HeapInv /\ TxCopyFiller => HeapInv'
<1> SUFFICES ASSUME HeapInv, TxCopyFiller PROVE HeapInv'
  OBVIOUS
<1> USE DEF HeapInv, radioVars, latencyVars, powerVars, slotVars, heapVars, TxCopyFiller
<1>1. TypeOK'  BY DEF TypeOK, TxPcs
<1>2. HoldingDiscipline'  BY DEF TypeOK, HoldingDiscipline
<1>3. HeldOnce'  BY DEF TypeOK, HeldOnce, HeldByTx, HeldByPq
<1>4. QED  BY <1>1, <1>2, <1>3

LEMMA TxCarryHeapInv == HeapInv /\ TxCarry => HeapInv'
<1> SUFFICES ASSUME HeapInv, TxCarry PROVE HeapInv'
  OBVIOUS
<1> USE DEF HeapInv, radioVars, latencyVars, powerVars, slotVars, heapVars, TxCarry
<1>1. TypeOK'  BY FullyAdvancedType, TimesAreHalfTimes DEF TypeOK, TxPcs
<1>2. HoldingDiscipline'  BY DEF TypeOK, HoldingDiscipline
<1>3. HeldOnce'  BY DEF TypeOK, HeldOnce, HeldByTx, HeldByPq
<1>4. QED  BY <1>1, <1>2, <1>3

LEMMA TxWrapHeapInv == HeapInv /\ TxWrap => HeapInv'
<1> SUFFICES ASSUME HeapInv, TxWrap PROVE HeapInv'
  OBVIOUS
<1> USE DEF HeapInv, radioVars, latencyVars, powerVars, slotVars, heapVars, TxWrap
<1>1. deadline' \in HalfTimes  BY DEF TypeOK, HalfTimes, Time, Timeslots
<1>2. TypeOK'  BY <1>1 DEF TypeOK
<1>3. HoldingDiscipline'  BY DEF TypeOK, HoldingDiscipline
<1>4. HeldOnce'  BY DEF TypeOK, HeldOnce, HeldByTx, HeldByPq
<1>5. QED  BY <1>2, <1>3, <1>4

LEMMA PqMalformedHeapInv == HeapInv /\ PqMalformed => HeapInv'
<1> SUFFICES ASSUME HeapInv, PqMalformed PROVE HeapInv'
  OBVIOUS
<1> USE DEF HeapInv, radioVars, latencyVars, powerVars, slotVars, heapVars, PqMalformed
<1>1. TypeOK'  BY DEF TypeOK, PqIsReading
<1>2. HoldingDiscipline'  BY DEF TypeOK, HoldingDiscipline
<1>3. HeldOnce'  BY DEF TypeOK, HeldOnce, HeldByTx, HeldByPq
<1>4. QED  BY <1>1, <1>2, <1>3

LEMMA PqReceiveHeapInv == HeapInv /\ PqReceive => HeapInv'
<1> SUFFICES ASSUME HeapInv, PqReceive PROVE HeapInv'
  OBVIOUS
<1> USE DEF HeapInv, radioVars, latencyVars, powerVars, slotVars, heapVars, PqReceive
<1>1. TypeOK'
  <2>1. write' \in [ClockWriters -> {"idle", "send"}]
    BY FormatIndicationType DEF TypeOK, ClockWriters
  <2>2. QED  BY <2>1 DEF TypeOK, PqIsReading
<1>2. HoldingDiscipline'  BY DEF TypeOK, HoldingDiscipline, PqIsReading
<1>3. HeldOnce'  BY DEF TypeOK, HeldOnce, HeldByTx, HeldByPq
<1>4. QED  BY <1>1, <1>2, <1>3

LEMMA PqStoredHeapInv == HeapInv /\ PqStored => HeapInv'
<1> SUFFICES ASSUME HeapInv, PqStored PROVE HeapInv'
  OBVIOUS
<1> USE DEF HeapInv, radioVars, latencyVars, powerVars, slotVars, heapVars, PqStored
<1>1. TypeOK'
  <2>1. write' \in [ClockWriters -> {"idle", "send"}]
    BY FormatIndicationType DEF TypeOK, ClockWriters
  <2>2. QED  BY <2>1 DEF TypeOK
<1>2. HoldingDiscipline'  BY DEF TypeOK, HoldingDiscipline
<1>3. HeldOnce'  BY DEF TypeOK, HeldOnce, HeldByTx, HeldByPq
<1>4. QED  BY <1>1, <1>2, <1>3

LEMMA CtlOtherCommandHeapInv == HeapInv /\ CtlOtherCommand => HeapInv'
<1> SUFFICES ASSUME HeapInv, CtlOtherCommand PROVE HeapInv'
  OBVIOUS
<1> USE DEF HeapInv, radioVars, latencyVars, powerVars, slotVars, heapVars, CtlOtherCommand
<1>1. TypeOK'
  <2>1. write' \in [ClockWriters -> {"idle", "send"}]
    BY FormatIndicationType DEF TypeOK, ClockWriters
  <2>2. QED  BY <2>1 DEF TypeOK
<1>2. HoldingDiscipline'  BY DEF TypeOK, HoldingDiscipline
<1>3. HeldOnce'  BY DEF TypeOK, HeldOnce, HeldByTx, HeldByPq
<1>4. QED  BY <1>1, <1>2, <1>3

LEMMA CtlCommandHeapInv == HeapInv /\ CtlCommand => HeapInv'
<1> SUFFICES ASSUME HeapInv, CtlCommand PROVE HeapInv'
  OBVIOUS
<1> USE DEF HeapInv, radioVars, latencyVars, powerVars, slotVars, heapVars, CtlCommand
<1>1. TypeOK'
  <2>1. write' \in [ClockWriters -> {"idle", "send"}]
    BY FormatIndicationType DEF TypeOK, ClockWriters
  <2>2. ctl' \in [pc : {"read", "poweron", "turnon", "settype", "setmodulus"},
                 tn : Timeslots, type : ChanTypes]
    <3>1. CASE ctl' = [ctl EXCEPT !.pc = "poweron"]  BY <3>1 DEF TypeOK
    <3>2. ASSUME NEW tn \in CommandSlots, NEW type \in SlotTypes,
                 ctl' = [pc |-> "settype", tn |-> tn, type |-> type]
          PROVE  ctl' \in [pc : {"read", "poweron", "turnon", "settype", "setmodulus"},
                           tn : Timeslots, type : ChanTypes]
      BY <3>2
    <3>3. QED  BY <3>1, <3>2
  <2>3. QED  BY <2>1, <2>2 DEF TypeOK
<1>2. HoldingDiscipline'  BY DEF TypeOK, HoldingDiscipline
<1>3. HeldOnce'  BY DEF TypeOK, HeldOnce, HeldByTx, HeldByPq
<1>4. QED  BY <1>1, <1>2, <1>3

LEMMA CtlStartThreadsHeapInv == HeapInv /\ CtlStartThreads => HeapInv'
<1> SUFFICES ASSUME HeapInv, CtlStartThreads PROVE HeapInv'
  OBVIOUS
<1> USE DEF HeapInv, radioVars, latencyVars, powerVars, slotVars, heapVars, CtlStartThreads
<1>1. TypeOK'
  <2>1. write' \in [ClockWriters -> {"idle", "send"}]
    BY FormatIndicationType DEF TypeOK, ClockWriters
  <2>2. QED  BY <2>1 DEF TypeOK
<1>2. HoldingDiscipline'  BY DEF TypeOK, HoldingDiscipline
<1>3. HeldOnce'  BY DEF TypeOK, HeldOnce, HeldByTx, HeldByPq
<1>4. QED  BY <1>1, <1>2, <1>3

LEMMA CtlTurnOnHeapInv == HeapInv /\ CtlTurnOn => HeapInv'
<1> SUFFICES ASSUME HeapInv, CtlTurnOn PROVE HeapInv'
  OBVIOUS
<1> USE DEF HeapInv, radioVars, latencyVars, powerVars, slotVars, heapVars, CtlTurnOn
<1>1. TypeOK'  BY DEF TypeOK
<1>2. HoldingDiscipline'  BY DEF TypeOK, HoldingDiscipline
<1>3. HeldOnce'  BY DEF TypeOK, HeldOnce, HeldByTx, HeldByPq
<1>4. QED  BY <1>1, <1>2, <1>3

LEMMA CtlSetTypeHeapInv == HeapInv /\ CtlSetType => HeapInv'
<1> SUFFICES ASSUME HeapInv, CtlSetType PROVE HeapInv'
  OBVIOUS
<1> USE DEF HeapInv, radioVars, latencyVars, powerVars, slotVars, heapVars, CtlSetType
<1>1. TypeOK'  BY DEF TypeOK
<1>2. HoldingDiscipline'  BY DEF TypeOK, HoldingDiscipline
<1>3. HeldOnce'  BY DEF TypeOK, HeldOnce, HeldByTx, HeldByPq
<1>4. QED  BY <1>1, <1>2, <1>3

LEMMA CtlSetModulusHeapInv == HeapInv /\ CtlSetModulus => HeapInv'
<1> SUFFICES ASSUME HeapInv, CtlSetModulus PROVE HeapInv'
  OBVIOUS
<1> USE DEF HeapInv, radioVars, latencyVars, powerVars, slotVars, heapVars, CtlSetModulus
<1>1. TypeOK'
  <2>1. ctl.tn \in Timeslots /\ chanType[ctl.tn] \in ChanTypes /\ modulus[ctl.tn] \in Moduli
    BY DEF TypeOK
  <2>2. ModulusFor(chanType[ctl.tn], modulus[ctl.tn]) \in Moduli
    BY <2>1, ModulusForType
  <2>3. modulus' \in [Timeslots -> Moduli]  BY <2>2 DEF TypeOK
  <2>4. ctl' \in [pc : {"read", "poweron", "turnon", "settype", "setmodulus"},
                 tn : Timeslots, type : ChanTypes]
    BY DEF Timeslots, ChanTypes
  <2>5. QED  BY <2>3, <2>4 DEF TypeOK
<1>2. HoldingDiscipline'  BY DEF TypeOK, HoldingDiscipline
<1>3. HeldOnce'  BY DEF TypeOK, HeldOnce, HeldByTx, HeldByPq
<1>4. QED  BY <1>1, <1>2, <1>3

LEMMA TickHeapInv == HeapInv /\ Tick => HeapInv'
<1> SUFFICES ASSUME HeapInv, Tick PROVE HeapInv'
  OBVIOUS
<1> USE DEF HeapInv, radioVars, latencyVars, powerVars, slotVars, heapVars, Tick
<1>1. TypeOK'  BY IncTNType DEF TypeOK
<1>2. HoldingDiscipline'  BY DEF TypeOK, HoldingDiscipline
<1>3. HeldOnce'  BY DEF TypeOK, HeldOnce, HeldByTx, HeldByPq
<1>4. QED  BY <1>1, <1>2, <1>3

LEMMA ReportUnderrunHeapInv == HeapInv /\ ReportUnderrun => HeapInv'
<1> SUFFICES ASSUME HeapInv, ReportUnderrun PROVE HeapInv'
  OBVIOUS
<1> USE DEF HeapInv, radioVars, latencyVars, powerVars, slotVars, heapVars, ReportUnderrun
<1>1. TypeOK'  BY DEF TypeOK, ReportedUnderruns
<1>2. HoldingDiscipline'  BY DEF TypeOK, HoldingDiscipline
<1>3. HeldOnce'  BY DEF TypeOK, HeldOnce, HeldByTx, HeldByPq
<1>4. QED  BY <1>1, <1>2, <1>3

LEMMA SendIndicationHeapInv ==
  ASSUME NEW w \in ClockWriters, HeapInv, SendIndication(w) PROVE HeapInv'
<1> USE DEF HeapInv, radioVars, latencyVars, powerVars, slotVars, heapVars, SendIndication
<1>1. TypeOK'  BY TimesAreHalfTimes DEF TypeOK
<1>2. HoldingDiscipline'  BY DEF HoldingDiscipline
<1>3. HeldOnce'  BY DEF HeldOnce, HeldByTx, HeldByPq
<1>4. QED  BY <1>1, <1>2, <1>3
-----------------------------------------------------------------------------
LEMMA NextHeapInv == HeapInv /\ [Next]_vars => HeapInv'
<1> SUFFICES ASSUME HeapInv, [Next]_vars PROVE HeapInv'
  OBVIOUS
<1>1. CASE TxNext
  BY <1>1, TxDueHeapInv, TxAdaptLatencyHeapInv, TxDumpStaleHeapInv,
     TxNoStaleHeapInv, TxTakeCurrentHeapInv, TxCombineHeapInv,
     TxNoCurrentHeapInv, TxCopyFillerHeapInv, TxSendHeapInv, TxWrapHeapInv, TxCarryHeapInv,
     DeleteOldFillerHeapInv, StoreNewFillerHeapInv DEF TxNext, FillerCallers
<1>2. CASE PqReads
  BY <1>2, PqMalformedHeapInv, PqReceiveHeapInv DEF PqReads
<1>3. CASE PqWorks
  BY <1>3, PqStoreHeapInv, PqStoredHeapInv, SendIndicationHeapInv,
     DeleteOldFillerHeapInv, StoreNewFillerHeapInv
  DEF PqWorks, FillerCallers, ClockWriters
<1>4. CASE CtlReads
  BY <1>4, CtlOtherCommandHeapInv, CtlCommandHeapInv DEF CtlReads
<1>5. CASE CtlWorks
  BY <1>5, CtlStartThreadsHeapInv, CtlTurnOnHeapInv, CtlSetTypeHeapInv,
     CtlSetModulusHeapInv, SendIndicationHeapInv DEF CtlWorks, ClockWriters
<1>6. CASE Tick
  BY <1>6, TickHeapInv
<1>7. CASE ReportUnderrun
  BY <1>7, ReportUnderrunHeapInv
<1>8. CASE UNCHANGED vars
  BY <1>8 DEF HeapInv, TypeOK, HoldingDiscipline, HeldOnce, HeldByTx,
              HeldByPq, vars, radioVars, latencyVars, powerVars, slotVars, heapVars
<1>9. QED  BY <1>1, <1>2, <1>3, <1>4, <1>5, <1>6, <1>7, <1>8 DEF Next

\* Types and ownership hold in every reachable state, for any number of
\* bursts and any bound (TransmitPath HeapInv).
THEOREM HeapInvariance == Spec => []HeapInv
<1>1. QED  BY InitHeapInv, NextHeapInv, PTL DEF Spec

\* In every reachable state filler rows are rows of the table, and clock and
\* deadline are times of the standard, but for the deadline while it is half
\* written and for what another thread copied of it then.
THEOREM TypeCorrect == Spec => []TypeOK
<1>1. HeapInv => TypeOK  BY DEF HeapInv
<1>2. QED  BY <1>1, HeapInvariance, PTL

\* A due burst is passed over only behind a stale one: the head of the queue
\* is not due, the due burst is not behind the head, and two different times
\* are always comparable (pushRadioVector, Interthread.h PointerCompare).
THEOREM MissesAreBehindStale == Spec => MissOnlyBehindStale
<1> DEFINE Allowed == \/ \A b \in queue : heap[b] # deadline
                      \/ \E b \in queue : Lt(heap[b], deadline)
<1>1. HeapInv /\ TxNoCurrent => Allowed
  <2> SUFFICES ASSUME HeapInv, TxNoCurrent,
                      NEW b \in queue, heap[b] = deadline
               PROVE  \E c \in queue : Lt(heap[c], deadline)
    OBVIOUS
  <2>1. PICK c \in Top : heap[c] # deadline  BY DEF TxNoCurrent
  <2>2. c \in queue /\ ~Gt(heap[c], heap[b])  BY <2>1 DEF Top
  <2>3. heap[c] \in Times /\ deadline \in Times
    BY <2>2 DEF HeapInv, TypeOK, HeldOnce, TxNoCurrent
  <2>4. Lt(heap[c], deadline)  BY <2>1, <2>2, <2>3, Comparable
  <2>5. QED  BY <2>2, <2>4
<1>2. HeapInv => [TxNoCurrent => Allowed]_vars
  BY <1>1
<1>3. QED  BY <1>2, HeapInvariance, PTL DEF MissOnlyBehindStale
-----------------------------------------------------------------------------
(***************************************************************************)
(* The filler table, when the core sends no filler frames: setFiller is     *)
(* then called by the transmit thread alone, and an entry without a         *)
(* waveform is the one that this call is between deleting and storing.      *)
(***************************************************************************)
OnlyTxFills ==
  /\ call["pq"].step = "idle"
  /\ call["tx"].step = "assign" => filler[EntryOf("tx")] = "deleted"
  /\ \A entry \in FillerRows \X Timeslots :
       filler[entry] = "deleted" => call["tx"].step = "assign" /\ entry = EntryOf("tx")

LEMMA InitOnlyTxFills == Init => OnlyTxFills
  BY DEF Init, OnlyTxFills, IdleCall, FillerCallers

\* Outside a call of setFiller every entry is there.
LEMMA AllSetWhenIdle ==
  ASSUME HeapInv, OnlyTxFills, call["tx"].step # "assign",
         NEW entry \in FillerRows \X Timeslots
  PROVE  filler[entry] # "deleted"
  BY DEF OnlyTxFills

\* The entry that a call writes to is an entry of the table.
LEMMA EntryInTable ==
  ASSUME HeapInv, call["tx"].step # "idle" PROVE EntryOf("tx") \in FillerRows \X Timeslots
<1>1. call["tx"].burst \in Bursts /\ heap[call["tx"].burst] \in Times
  BY DEF HeapInv, TypeOK, HoldingDiscipline, HeldOnce, HeldByTx, FillerCallers
<1>2. QED  BY <1>1 DEF EntryOf, HeapInv, TypeOK, FillerCallers, Times

\* The steps that leave calls, table and heap alone.
LEMMA ElsewhereOnlyTxFills ==
  ASSUME OnlyTxFills, UNCHANGED <<call, filler, heap>> PROVE OnlyTxFills'
  BY DEF OnlyTxFills, EntryOf

\* The transmit thread begins a call, or frees a burst, outside any call.
LEMMA TxBeginsOnlyTxFills ==
  ASSUME HeapInv, OnlyTxFills, filler' = filler, call["tx"].step = "idle",
         \/ call' = call
         \/ \E b, t : call' = CallOn("tx", b, t, TRUE) \/ call' = CallOn("tx", b, t, FALSE)
  PROVE  OnlyTxFills'
<1>1. call'["pq"] = call["pq"] /\ call'["tx"].step # "assign"
  BY DEF CallOn, HeapInv, TypeOK, FillerCallers
<1>2. \A entry \in FillerRows \X Timeslots : filler[entry] # "deleted"
  BY AllSetWhenIdle
<1>3. QED  BY <1>1, <1>2 DEF OnlyTxFills

LEMMA DeleteOnlyTxFills ==
  HeapInv /\ OnlyTxFills /\ DeleteOldFiller("tx") => OnlyTxFills'
<1> SUFFICES ASSUME HeapInv, OnlyTxFills, DeleteOldFiller("tx") PROVE OnlyTxFills'
  OBVIOUS
<1>1. /\ call'["pq"] = call["pq"] /\ call'["tx"].step = "assign"
      /\ call'["tx"].burst = call["tx"].burst /\ call'["tx"].row = call["tx"].row
  BY DEF DeleteOldFiller, HeapInv, TypeOK, FillerCallers
<1>2. EntryOf("tx")' = EntryOf("tx")
  BY <1>1 DEF EntryOf, DeleteOldFiller, heapVars
<1>3. ASSUME NEW entry \in FillerRows \X Timeslots, filler'[entry] = "deleted"
      PROVE  entry = EntryOf("tx")
  <2>1. filler[entry] # "deleted"  BY AllSetWhenIdle DEF DeleteOldFiller
  <2>2. QED  BY <1>3, <2>1 DEF DeleteOldFiller, HeapInv, TypeOK
<1>4. filler'[EntryOf("tx")] = "deleted"
  BY EntryInTable DEF DeleteOldFiller, HeapInv, TypeOK
<1>5. QED  BY <1>1, <1>2, <1>3, <1>4 DEF OnlyTxFills

LEMMA StoreOnlyTxFills ==
  HeapInv /\ OnlyTxFills /\ StoreNewFiller("tx") => OnlyTxFills'
<1> SUFFICES ASSUME HeapInv, OnlyTxFills, StoreNewFiller("tx") PROVE OnlyTxFills'
  OBVIOUS
<1>1. call'["pq"] = call["pq"] /\ call'["tx"].step = "idle"
  BY DEF StoreNewFiller, IdleCall, HeapInv, TypeOK, FillerCallers
<1>2. ASSUME NEW entry \in FillerRows \X Timeslots PROVE filler'[entry] # "deleted"
  <2>1. CASE entry = EntryOf("tx")
    BY <2>1 DEF StoreNewFiller, HeapInv, TypeOK
  <2>2. CASE entry # EntryOf("tx")
    BY <2>2 DEF StoreNewFiller, HeapInv, TypeOK, OnlyTxFills
  <2>3. QED  BY <2>1, <2>2
<1>3. QED  BY <1>1, <1>2 DEF OnlyTxFills

\* A new burst takes the place of a deleted one, never of the one in the call.
LEMMA PqStoreOnlyTxFills ==
  ASSUME "FILLER" \notin Inputs, HeapInv, OnlyTxFills, PqStore PROVE OnlyTxFills'
<1>1. PICK b \in Bursts, t \in Times : heap[b] = Freed /\ heap' = [heap EXCEPT ![b] = t]
  BY DEF PqStore
<1>2. call' = call /\ filler' = filler  BY DEF PqStore
<1>3. call["tx"].step = "assign" => call["tx"].burst # b /\ call["tx"].burst \in Bursts
  BY <1>1 DEF HeapInv, TypeOK, HoldingDiscipline, HeldOnce, HeldByTx, FillerCallers
<1>4. call["tx"].step = "assign" => EntryOf("tx")' = EntryOf("tx")
  BY <1>1, <1>2, <1>3 DEF EntryOf, HeapInv, TypeOK
<1>5. QED  BY <1>2, <1>4 DEF OnlyTxFills

LEMMA NextOnlyTxFills ==
  ASSUME "FILLER" \notin Inputs
  PROVE  HeapInv /\ OnlyTxFills /\ [Next]_vars => OnlyTxFills'
<1> SUFFICES ASSUME HeapInv, OnlyTxFills, [Next]_vars PROVE OnlyTxFills'
  OBVIOUS
<1> USE DEF radioVars, latencyVars, powerVars, slotVars, heapVars
<1>1. CASE TxNext
  <2>1. CASE TxDue \/ TxAdaptLatency \/ TxNoStale \/ TxNoCurrent \/ TxCopyFiller
              \/ TxWrap \/ TxCarry
    BY <2>1, ElsewhereOnlyTxFills
    DEF TxDue, TxAdaptLatency, TxNoStale, TxNoCurrent, TxCopyFiller, TxWrap, TxCarry
  <2>2. CASE TxDumpStale
    <3>1. PICK b \in Top : BeginSetFiller(b, FALSE)  BY <2>2 DEF TxDumpStale
    <3>2. call' = call \/ call' = CallOn("tx", b, heap[b], FALSE)
      BY <3>1 DEF BeginSetFiller
    <3>3. QED  BY <2>2, <3>2, TxBeginsOnlyTxFills DEF TxDumpStale
  <2>3. CASE TxTakeCurrent
    <3>1. PICK b \in Top : BeginSetFiller(b, TRUE)  BY <2>3 DEF TxTakeCurrent
    <3>2. call' = call \/ call' = CallOn("tx", b, heap[b], TRUE)
      BY <3>1 DEF BeginSetFiller
    <3>3. call["tx"].step = "idle"  BY <2>3 DEF TxTakeCurrent, HeapInv, HoldingDiscipline
    <3>4. QED  BY <2>3, <3>2, <3>3, TxBeginsOnlyTxFills DEF TxTakeCurrent
  <2>4. CASE TxCombine
    BY <2>4, TxBeginsOnlyTxFills DEF TxCombine
  <2>5. CASE TxSend
    <3>1. call["tx"].step = "idle"  BY <2>5 DEF TxSend, HeapInv, HoldingDiscipline
    <3>2. QED  BY <2>5, <3>1, TxBeginsOnlyTxFills DEF TxSend
  <2>6. QED  BY <1>1, <2>1, <2>2, <2>3, <2>4, <2>5, DeleteOnlyTxFills, StoreOnlyTxFills
             DEF TxNext
<1>2. CASE PqReads
  BY <1>2, ElsewhereOnlyTxFills DEF PqReads, PqMalformed, PqReceive
<1>3. CASE PqWorks
  <2>1. ~DeleteOldFiller("pq") /\ ~StoreNewFiller("pq")
    BY DEF OnlyTxFills, DeleteOldFiller, StoreNewFiller
  <2>2. CASE PqStored \/ SendIndication("pq")
    BY <2>2, ElsewhereOnlyTxFills DEF PqStored, SendIndication
  <2>3. QED  BY <1>3, <2>1, <2>2, PqStoreOnlyTxFills DEF PqWorks
<1>4. CASE CtlReads
  BY <1>4, ElsewhereOnlyTxFills DEF CtlReads, CtlOtherCommand, CtlCommand
<1>5. CASE CtlWorks
  BY <1>5, ElsewhereOnlyTxFills
  DEF CtlWorks, CtlStartThreads, CtlTurnOn, CtlSetType, CtlSetModulus, SendIndication
<1>6. CASE Tick \/ ReportUnderrun
  BY <1>6, ElsewhereOnlyTxFills DEF Tick, ReportUnderrun
<1>7. CASE UNCHANGED vars
  BY <1>7, ElsewhereOnlyTxFills DEF vars
<1>8. QED  BY <1>1, <1>2, <1>3, <1>4, <1>5, <1>6, <1>7 DEF Next

\* As long as the core sends no filler frames, no thread copies or deletes a
\* filler waveform that is deleted already, whatever SETSLOT does to the
\* moduli and the channel types meanwhile (Transceiver.cpp setFiller,
\* pushRadioVector).  With filler frames it fails: run transmit_filler_race.
THEOREM FillersArePresent ==
  ASSUME "FILLER" \notin Inputs PROVE Spec => []FillerEntryPresent
<1>1. HeapInv /\ OnlyTxFills => FillerEntryPresent
  <2> SUFFICES ASSUME HeapInv, OnlyTxFills PROVE FillerEntryPresent
    OBVIOUS
  <2>1. ASSUME tx.pc = "fill" PROVE filler[FillerForSlot] # "deleted"
    <3>1. call["tx"].step = "idle"  BY <2>1 DEF HeapInv, HoldingDiscipline
    <3>2. deadline \in Times /\ modulus[deadline.tn] \in Moduli
      BY <2>1 DEF HeapInv, TypeOK, Times
    <3>3. FillerForSlot \in FillerRows \X Timeslots
      BY <3>2, RowInTable DEF FillerForSlot, Times
    <3>4. QED  BY <3>1, <3>3, AllSetWhenIdle
  <2>2. ASSUME NEW c \in FillerCallers, call[c].step = "delete"
        PROVE  filler[EntryOf(c)] # "deleted"
    <3>1. c = "tx"  BY <2>2 DEF FillerCallers, OnlyTxFills
    <3>2. EntryOf("tx") \in FillerRows \X Timeslots  BY <2>2, <3>1, EntryInTable
    <3>3. QED  BY <2>2, <3>1, <3>2, AllSetWhenIdle
  <2>3. QED  BY <2>1, <2>2 DEF FillerEntryPresent
<1>2. HeapInv /\ OnlyTxFills /\ [Next]_vars => OnlyTxFills'  BY NextOnlyTxFills
<1>3. QED  BY <1>1, <1>2, InitOnlyTxFills, HeapInvariance, PTL DEF Spec

\* As long as the core sends no filler frames: outside the filler table every
\* allocated burst has exactly one owner, nobody owns a deleted one, and what
\* the table owns is deleted once before its entry is stored again, whatever
\* the channel types and moduli are meanwhile (Transceiver.cpp setFiller,
\* pushRadioVector).  With filler frames two threads may delete the same entry.
THEOREM BurstsAreOwned ==
  ASSUME "FILLER" \notin Inputs PROVE Spec => []BurstOwnership
<1>1. HeapInv /\ OnlyTxFills => BurstOwnership
  <2> SUFFICES ASSUME HeapInv, OnlyTxFills PROVE TableOwnership
    BY DEF BurstOwnership, HeapInv
  <2> SUFFICES ASSUME NEW c \in FillerCallers
               PROVE  /\ call[c].step = "delete" => filler[EntryOf(c)] = "set"
                      /\ call[c].step = "assign" => filler[EntryOf(c)] = "deleted"
    BY DEF TableOwnership
  <2>1. ASSUME call[c].step = "delete" PROVE filler[EntryOf(c)] = "set"
    <3>1. c = "tx"  BY <2>1 DEF FillerCallers, OnlyTxFills
    <3>2. EntryOf("tx") \in FillerRows \X Timeslots  BY <2>1, <3>1, EntryInTable
    <3>3. filler[EntryOf("tx")] # "deleted"  BY <2>1, <3>1, <3>2, AllSetWhenIdle
    <3>4. QED  BY <3>1, <3>2, <3>3 DEF HeapInv, TypeOK
  <2>2. ASSUME call[c].step = "assign" PROVE filler[EntryOf(c)] = "deleted"
    BY <2>2 DEF FillerCallers, OnlyTxFills
  <2>3. QED  BY <2>1, <2>2
<1>2. HeapInv /\ OnlyTxFills /\ [Next]_vars => OnlyTxFills'  BY NextOnlyTxFills
<1>3. QED  BY <1>1, <1>2, InitOnlyTxFills, HeapInvariance, PTL DEF Spec
-----------------------------------------------------------------------------
(***************************************************************************)
(* How far the deadline is behind the radio clock plus the latency.  Frame  *)
(* numbers are cyclic, so that it is never ahead only makes sense while     *)
(* both stay within half a hyperframe: LatencyIsShort says that the bound   *)
(* MaxLag, the latency at the start, the jump of decTN without a borrow     *)
(* (TNWord - 1 timeslots) and the two intervals leave that room.  With the  *)
(* numbers of the code half a hyperframe is 1357824 frames, and they need   *)
(* 3 frames, 255 timeslots, 10 and 216 frames.                              *)
(***************************************************************************)
LatencyIsShort ==
  /\ MaxLag + TNWord - 1 <= (HalfModulus - 1) * GMaxTimeslots
  /\ InitialLatency * GMaxTimeslots <= MaxLag + TNWord - 1
  /\ UnderrunInterval <= HalfModulus /\ UpdateInterval <= HalfModulus

Lag == SlotsBetween(AddTime(clock, latency), DueSlot)
LagFloor == IF Usrp1Window THEN -1 ELSE 0
PushingPcs == {"stale", "current", "combine", "fill", "send"}

\* A slot is only pushed while the deadline is behind; only a drop of the
\* latency, by one timeslot, can come in between; and after a jump of the
\* latency beyond the bound it stays as it is until the clock has moved.
LagInv ==
  /\ Lag >= LagFloor /\ Lag <= MaxLag + TNWord - 1
  /\ Lag > MaxLag => latencyUpdate = clock
  /\ tx.pc = "adapt" => Usrp1Window /\ Lag >= 1
  /\ tx.pc \in PushingPcs => Lag >= LagFloor + 1

LEMMA LagIsInt == ASSUME TypeOK
                  PROVE  AddTime(clock, latency) \in Times /\ DueSlot \in Times /\ Lag \in Int
<1>1. AddTime(clock, latency) \in Times  BY AddTimeType, TimesAreRaw DEF TypeOK
<1>2. DueSlot \in Times  BY FullyAdvancedType DEF TypeOK, DueSlot
<1>3. QED  BY <1>1, <1>2, SlotsAreInts DEF Lag

LEMMA LagsAreNear ==
  ASSUME LatencyIsShort, NEW n \in Int, n >= -1, n <= MaxLag + TNWord - 1
  PROVE  n \in Near
<1> DEFINE near == (HalfModulus - 1) * GMaxTimeslots
<1>1. near \in Int /\ MaxLag + TNWord - 1 <= near  BY Halves DEF LatencyIsShort
<1>2. near >= 1 /\ n <= near  BY <1>1
<1> HIDE DEF near
<1>3. n \in -near .. near  BY <1>1, <1>2
<1>4. QED  BY <1>3 DEF Near, near

\* A time is where it is.
LEMMA StaysPut == ASSUME NEW t \in RawTimes PROVE Shifts(t, t, 0)
<1>1. t.fn \in Frames /\ t.fn \in Int /\ t.tn \in Int  BY DEF RawTimes, Frames
<1>2. t.fn + 0 = t.fn /\ t.fn % GMaxFrames = t.fn /\ 0 = 0 * GMaxTimeslots + t.tn - t.tn
  BY <1>1, FrameIsItself
<1>3. QED  BY <1>2 DEF Shifts

\* The push moves the slot that is due by one, whichever store of incTN the
\* other threads see first; the other stores move it no further.
LEMMA SendAdvances ==
  ASSUME TypeOK, TxSend PROVE DueSlot' = IncTN(DueSlot, 1)
<1> DEFINE T == GMaxTimeslots  tn == deadline.tn  fn == deadline.fn
<1>1. /\ deadline \in Times /\ tn \in Int /\ 0 <= tn /\ tn < T /\ fn \in Frames
      /\ T \in Nat /\ T >= 2 /\ DueSlot = deadline /\ TNWord \in Nat /\ TNWord >= 2 * T
  BY TimesAreInts DEF TypeOK, TxSend, DueSlot
<1>2. (tn + 1) % TNWord = tn + 1  BY <1>1
<1>3. CASE tn + 1 > T - 1
  <2>1. IncTN(deadline, 1) = Time(NextFrame(fn), 0)
    <3>1. IncTN(deadline, 1) = Time(NextFrame(fn), tn + 1 - T)  BY <1>1, <1>2, <1>3 DEF IncTN
    <3>2. tn + 1 - T = 0  BY <1>1, <1>3
    <3>3. QED  BY <3>1, <3>2
  <2>2. NextFrame(fn) # fn
    <3>1. fn \in Int /\ 0 <= fn /\ fn < GMaxFrames /\ GMaxFrames \in Nat /\ GMaxFrames >= 2
      BY <1>1 DEF Frames
    <3>2. CASE fn + 1 < GMaxFrames  BY <3>1, <3>2 DEF NextFrame
    <3>3. CASE fn + 1 = GMaxFrames  BY <3>1, <3>3 DEF NextFrame
    <3>4. QED  BY <3>1, <3>2, <3>3
  <2>3. tx'.pc = "carry" /\ deadline' \in HalfAdvanced(deadline)
    BY <2>1, <2>2 DEF TxSend, Time
  <2>4. \/ deadline' = Time(fn, T) \/ deadline' = Time(fn, 0)
        \/ deadline' = Time(NextFrame(fn), tn)
    BY <2>3 DEF HalfAdvanced
  <2>5. tn # 0 /\ tn # T  BY <1>1, <1>3
  <2>6. FullyAdvanced(deadline') = Time(NextFrame(fn), 0)
    BY <2>4, <2>5 DEF FullyAdvanced, Time
  <2>7. QED  BY <1>1, <2>1, <2>3, <2>6 DEF DueSlot
<1>4. CASE ~(tn + 1 > T - 1)
  <2>1. IncTN(deadline, 1) = Time(fn, tn + 1)  BY <1>2, <1>4 DEF IncTN
  <2>2. tx'.pc = "wait" /\ deadline' = IncTN(deadline, 1)  BY <2>1 DEF TxSend, Time
  <2>3. QED  BY <1>1, <2>2 DEF DueSlot
<1>5. QED  BY <1>3, <1>4

LEMMA CarryStays == ASSUME TypeOK, TxCarry PROVE DueSlot' = DueSlot
  BY DEF TypeOK, TxCarry, DueSlot

LEMMA WrapStays == ASSUME TypeOK, TxWrap PROVE DueSlot' = DueSlot
  BY DEF TxWrap, DueSlot, FullyAdvanced, Time

-----------------------------------------------------------------------------
LEMMA InitLagInv == ASSUME LatencyIsShort, Init PROVE LagInv
<1> DEFINE L == InitialLatency  T == GMaxTimeslots  n == L * T
<1>1. TypeOK  BY InitHeapInv DEF HeapInv
<1>2. /\ clock \in Times /\ DueSlot = clock /\ latency = Time(L, 0) /\ latency \in RawTimes
      /\ latency.fn = L /\ latency.tn = 0 /\ tx.pc = "wait" /\ latencyUpdate = clock
  BY <1>1 DEF TypeOK, Init, DueSlot, Time
<1>3. n \in Nat /\ n <= MaxLag + TNWord - 1  BY DEF LatencyIsShort, Frames
<1> DEFINE n0 == L * T + 0
<1>4. Moves(clock, AddTime(clock, latency), n0)  BY <1>2, AddTimeMoves
<1>5. n0 = n  BY <1>3
<1>6. SlotsBetween(clock, clock) = 0
  BY <1>2, TimesAreInts, Halves DEF SlotsBetween, FNDelta, Frames
<1> HIDE DEF n, n0
<1>7. 0 + n = n /\ n \in Int /\ n >= -1  BY <1>3
<1>8. n \in Near  BY <1>3, <1>7, LagsAreNear
<1>9. SlotsBetween(AddTime(clock, latency), clock) = n
  BY <1>2, <1>4, <1>5, <1>6, <1>7, <1>8, MovesAway
<1>10. QED  BY <1>2, <1>3, <1>9 DEF LagInv, Lag, LagFloor, PushingPcs

\* Steps that leave clock, latency and deadline alone.
LEMMA ElsewhereLagInv ==
  ASSUME TypeOK, LagInv, UNCHANGED <<clock, latencyVars, deadline>>,
         \/ tx'.pc = tx.pc
         \/ tx.pc \in PushingPcs /\ tx'.pc \in PushingPcs
  PROVE  LagInv'
<1>1. DueSlot' = DueSlot  BY DEF DueSlot, PushingPcs
<1>2. Lag' = Lag /\ LagFloor' = LagFloor  BY <1>1 DEF Lag, LagFloor, latencyVars
<1>3. QED  BY <1>2 DEF LagInv, latencyVars, PushingPcs

LEMMA TxDueLagInv == ASSUME LatencyIsShort, TypeOK, LagInv, TxDue PROVE LagInv'
<1>1. DueSlot' = DueSlot /\ DueSlot = deadline  BY DEF DueSlot, TxDue, TypeOK
<1>2. Lag' = Lag /\ latencyUpdate' = latencyUpdate /\ clock' = clock
  BY <1>1 DEF Lag, TxDue, latencyVars, radioVars
<1>3. Lag \in Int /\ Lag >= -1 /\ Lag <= MaxLag + TNWord - 1
  BY LagIsInt DEF LagInv, LagFloor
<1>4. Lag \in Near  BY <1>3, LagsAreNear
<1>5. Lag > 0  BY <1>1, <1>4, LagIsInt, SlotsOrder DEF TxDue, Lag
<1>6. tx'.pc = IF Usrp1Window THEN "adapt" ELSE "stale"  BY DEF TxDue, TypeOK
<1>7. QED  BY <1>2, <1>3, <1>5, <1>6 DEF LagInv, LagFloor, PushingPcs

LEMMA TickLagInv == ASSUME LatencyIsShort, TypeOK, LagInv, Tick PROVE LagInv'
<1>1. DueSlot' = DueSlot /\ latency' = latency /\ clock' = IncTN(clock, 1) /\ tx' = tx
  BY DEF DueSlot, Tick, latencyVars
<1>2. clock \in Times /\ latency \in RawTimes /\ clock \in RawTimes  BY TimesAreRaw DEF TypeOK
<1>3. clock' \in Times /\ Shifts(clock, clock', 1)  BY <1>1, <1>2, IncTNMoves DEF Moves
<1>4. Moves(AddTime(clock, latency), AddTime(clock', latency), 1)
  BY <1>2, <1>3, StaysPut, SumsShift, TimesAreRaw
<1>5. Lag \in Int /\ Lag >= -1 /\ Lag < MaxLag
  BY LagIsInt DEF LagInv, LagFloor, Tick, Lag
<1>6. Lag + 1 \in Near  BY <1>5, LagsAreNear
<1>7. Lag' = Lag + 1  BY <1>1, <1>4, <1>6, LagIsInt, MovesAway DEF Lag
<1>8. QED  BY <1>1, <1>5, <1>7 DEF LagInv, LagFloor, PushingPcs

LEMMA SendLagInv == ASSUME LatencyIsShort, TypeOK, LagInv, TxSend PROVE LagInv'
<1>1. /\ DueSlot' = IncTN(DueSlot, 1) /\ latency' = latency /\ clock' = clock
      /\ latencyUpdate' = latencyUpdate
  BY SendAdvances DEF TxSend, latencyVars
<1>2. tx.pc = "send" /\ tx'.pc \in {"carry", "wait"}  BY DEF TxSend
<1>3. Moves(DueSlot, DueSlot', 1)  BY <1>1, LagIsInt, IncTNMoves
<1>4. Lag \in Int /\ Lag >= LagFloor + 1 /\ Lag <= MaxLag + TNWord - 1 /\ LagFloor \in {-1, 0}
  BY <1>2, LagIsInt DEF LagInv, LagFloor, PushingPcs
<1>5. Lag - 1 \in Near  BY <1>4, LagsAreNear
<1>6. Lag' = Lag - 1  BY <1>1, <1>3, <1>5, LagIsInt, MovesCloser DEF Lag
<1>7. LagFloor' = LagFloor  BY DEF LagFloor
<1>8. QED  BY <1>1, <1>2, <1>4, <1>6, <1>7 DEF LagInv, PushingPcs

LEMMA CarryLagInv == ASSUME TypeOK, LagInv, TxCarry PROVE LagInv'
<1>1. Lag' = Lag /\ LagFloor' = LagFloor /\ latencyUpdate' = latencyUpdate /\ clock' = clock
  BY CarryStays DEF Lag, LagFloor, TxCarry, latencyVars, radioVars
<1>2. tx'.pc = "wait"  BY DEF TxCarry, TypeOK
<1>3. QED  BY <1>1, <1>2 DEF LagInv, PushingPcs

LEMMA WrapLagInv == ASSUME TypeOK, LagInv, TxWrap PROVE LagInv'
<1>1. Lag' = Lag /\ LagFloor' = LagFloor /\ latencyUpdate' = latencyUpdate /\ clock' = clock
  BY WrapStays DEF Lag, LagFloor, TxWrap, latencyVars, radioVars
<1>2. QED  BY <1>1 DEF LagInv, TxWrap

\* The clock does not come after itself, moved on by up to half a hyperframe.
LEMMA NotYetLater ==
  ASSUME NEW t \in Times, NEW step \in Frames, step <= HalfModulus
  PROVE  ~Gt(t, AddTime(t, Time(step, 0)))
<1> DEFINE G == GMaxFrames  fn == (t.fn + step) % G
<1>1. /\ t.fn \in Frames /\ t.fn \in Int /\ t.tn \in Int /\ 0 <= t.tn /\ t.tn < GMaxTimeslots
      /\ GMaxTimeslots \in Nat /\ GMaxTimeslots >= 1 /\ step \in Int /\ step >= 0
      /\ G \in Nat /\ G > 0 /\ HalfModulus \in Nat /\ HalfModulus >= 1
  BY TimesAreInts, Halves DEF Frames
<1>2. AddTime(t, Time(step, 0)) = Time(fn, t.tn)
  <2>1. (t.tn + 0) \div GMaxTimeslots = 0 /\ (t.tn + 0) % GMaxTimeslots = t.tn
    <3>1. t.tn + 0 = t.tn /\ t.tn \in 0 .. GMaxTimeslots - 1 /\ GMaxTimeslots > 0  BY <1>1
    <3>2. QED  BY <1>1, <3>1, SmallDivision
  <2>2. t.fn + step + 0 = t.fn + step  BY <1>1
  <2>3. QED  BY <2>1, <2>2 DEF AddTime, Time
<1>3. FNDelta(t.fn, t.fn) = 0  BY <1>1 DEF FNDelta
<1>4. 0 - step = -step /\ -step \in -HalfModulus .. HalfModulus - 1  BY <1>1
<1>5. FNDelta(t.fn, fn) = -step  BY <1>1, <1>3, <1>4, DeltaMovesBack
<1>6. fn # t.fn => step # 0
  <2>1. step = 0 => t.fn + step = t.fn  BY <1>1
  <2>2. QED  BY <1>1, <2>1, FrameIsItself
<1> HIDE DEF fn
<1>7. CASE fn = t.fn
  BY <1>1, <1>2, <1>7 DEF Gt, Time
<1>8. CASE fn # t.fn
  <2>1. FNDelta(t.fn, fn) < 0  BY <1>1, <1>5, <1>6, <1>8
  <2>2. FNCompare(t.fn, fn) = -1  BY <1>1, <1>5, <2>1 DEF FNCompare
  <2>3. QED  BY <1>2, <1>8, <2>2 DEF Gt, Time
<1>9. QED  BY <1>7, <1>8

\* What the adaptation does to the latency: a frame more, one timeslot less
\* or, at timeslot 0, TNWord - 1 timeslots more.
LEMMA RaiseShifts ==
  ASSUME NEW t \in RawTimes
  PROVE  AddTime(t, Time(1, 0)) \in RawTimes /\ Shifts(t, AddTime(t, Time(1, 0)), GMaxTimeslots)
<1> DEFINE T == GMaxTimeslots  q == t.tn \div T  r == t.tn % T
<1>1. t.fn \in Int /\ t.tn \in Int /\ T \in Nat /\ T > 0 /\ t.tn + 0 = t.tn
  BY GsmTimeAssumption DEF RawTimes, Frames
<1>a. q \in Int /\ r \in 0 .. T - 1 /\ t.tn = T * q + r  BY <1>1, Division
<1>2. q \in Int /\ r \in Int /\ t.tn = T * q + r  BY <1>1, <1>a
<1>3. AddTime(t, Time(1, 0)) = Time((t.fn + 1 + q) % GMaxFrames, r)
  BY <1>1 DEF AddTime, Time
<1> HIDE DEF q, r
<1>4. 1 + q \in Int /\ t.fn + 1 + q = t.fn + (1 + q)  BY <1>1, <1>2
<1>5. T = (1 + q) * T + r - t.tn
  <2> DEFINE x == T * q
  <2>1. (1 + q) * T = T + x /\ x \in Int  BY <1>1, <1>2
  <2>2. t.tn = x + r  BY <1>2
  <2> HIDE DEF x
  <2>3. QED  BY <1>1, <1>2, <2>1, <2>2
<1>6. Shifts(t, AddTime(t, Time(1, 0)), T)  BY <1>3, <1>4, <1>5 DEF Shifts, Time
<1>7. Time(1, 0) \in RawTimes  BY TimesAreRaw, TimeOfFrames
<1>8. QED  BY <1>6, <1>7, AddTimeType, TimesAreRaw

LEMMA DropShifts ==
  ASSUME NEW t \in RawTimes
  PROVE  /\ DecTN(t, 1) \in RawTimes
         /\ Shifts(t, DecTN(t, 1), IF t.tn = 0 THEN TNWord - 1 ELSE -1)
<1>1. t.fn \in Frames /\ t.fn \in Int /\ t.tn \in 0 .. TNWord - 1 /\ TNWord \in Nat /\ TNWord >= 2
  BY DEF RawTimes, Frames
<1>2. (t.tn - 1) % TNWord = IF t.tn = 0 THEN TNWord - 1 ELSE t.tn - 1  BY <1>1
<1>3. t.fn + 0 = t.fn /\ t.fn % GMaxFrames = t.fn  BY <1>1, FrameIsItself
<1>4. DecTN(t, 1).fn = (t.fn + 0) % GMaxFrames /\ DecTN(t, 1).tn = (t.tn - 1) % TNWord
  BY <1>3 DEF DecTN, Time
<1>5. (IF t.tn = 0 THEN TNWord - 1 ELSE -1) = 0 * GMaxTimeslots + DecTN(t, 1).tn - t.tn
  BY <1>1, <1>2, <1>4
<1>6. Shifts(t, DecTN(t, 1), IF t.tn = 0 THEN TNWord - 1 ELSE -1)  BY <1>4, <1>5 DEF Shifts
<1>7. QED  BY <1>6, DecTNType

LEMMA AdaptLagInv == ASSUME LatencyIsShort, TypeOK, LagInv, TxAdaptLatency PROVE LagInv'
<1> DEFINE raise == underrun /\ Gt(clock, AddTime(latencyUpdate, Time(UnderrunInterval, 0)))
           drop == ~underrun /\ Gt(latency, Time(1, 1))
                   /\ Gt(clock, AddTime(latencyUpdate, Time(UpdateInterval, 0)))
<1>1. /\ latency' = IF raise THEN AddTime(latency, Time(1, 0))
                    ELSE IF drop THEN DecTN(latency, 1) ELSE latency
      /\ latencyUpdate' = IF raise \/ drop THEN clock ELSE latencyUpdate
      /\ clock' = clock /\ deadline' = deadline /\ tx.pc = "adapt" /\ tx'.pc = "stale"
  BY DEF TxAdaptLatency, TypeOK
<1>2. DueSlot' = DueSlot /\ LagFloor' = LagFloor  BY <1>1 DEF DueSlot, LagFloor
<1>3. /\ clock \in Times /\ clock \in RawTimes /\ latency \in RawTimes
      /\ UnderrunInterval \in Frames /\ UpdateInterval \in Frames
      /\ TNWord \in Nat /\ TNWord >= 2 * GMaxTimeslots
      /\ GMaxTimeslots \in Nat /\ GMaxTimeslots >= 1 /\ MaxLag \in Nat
  BY TimesAreRaw DEF TypeOK
<1>4. /\ Lag \in Int /\ Lag >= 1 /\ Lag <= MaxLag + TNWord - 1 /\ LagFloor = -1
      /\ Lag > MaxLag => latencyUpdate = clock
  BY <1>1, LagIsInt DEF LagInv, LagFloor
<1>5. raise \/ drop => Lag <= MaxLag
  <2>1. raise \/ drop => latencyUpdate # clock
    BY <1>3, NotYetLater DEF LatencyIsShort
  <2>2. QED  BY <1>3, <1>4, <2>1
<1> HIDE DEF raise, drop
<1>6. ASSUME NEW n \in Int, latency' \in RawTimes, Shifts(latency, latency', n),
             Lag + n >= 0, Lag + n <= MaxLag + TNWord - 1
      PROVE  Lag' = Lag + n
  <2> DEFINE n0 == 0 + n
  <2>1. Moves(AddTime(clock, latency), AddTime(clock, latency'), n0)
    BY <1>3, <1>6, StaysPut, SumsShift
  <2>2. n0 = n  OBVIOUS
  <2> HIDE DEF n0
  <2>3. Lag + n \in Near  BY <1>4, <1>6, LagsAreNear
  <2>4. QED  BY <1>1, <1>2, <2>1, <2>2, <2>3, LagIsInt, MovesAway DEF Lag
<1>7. CASE raise
  <2>1. latency' \in RawTimes /\ Shifts(latency, latency', GMaxTimeslots)
    BY <1>1, <1>3, <1>7, RaiseShifts
  <2>2. Lag + GMaxTimeslots >= 0 /\ Lag + GMaxTimeslots <= MaxLag + TNWord - 1
    BY <1>3, <1>4, <1>5, <1>7
  <2>3. Lag' = Lag + GMaxTimeslots  BY <1>3, <1>6, <2>1, <2>2
  <2>4. QED  BY <1>1, <1>2, <1>3, <1>4, <1>7, <2>2, <2>3 DEF LagInv, PushingPcs
<1>8. CASE ~raise /\ drop
  <2> DEFINE n == IF latency.tn = 0 THEN TNWord - 1 ELSE -1
  <2>1. latency' \in RawTimes /\ Shifts(latency, latency', n)
    BY <1>1, <1>3, <1>8, DropShifts
  <2>2. n \in Int /\ n >= -1 /\ n <= TNWord - 1  BY <1>3
  <2> HIDE DEF n
  <2>3. Lag + n >= 0 /\ Lag + n <= MaxLag + TNWord - 1
    BY <1>3, <1>4, <1>5, <1>8, <2>2
  <2>4. Lag' = Lag + n  BY <1>6, <2>1, <2>2, <2>3
  <2>5. QED  BY <1>1, <1>2, <1>3, <1>4, <1>8, <2>3, <2>4 DEF LagInv, PushingPcs
<1>9. CASE ~raise /\ ~drop
  <2>1. latency' = latency /\ latencyUpdate' = latencyUpdate  BY <1>1, <1>9
  <2>2. Lag' = Lag  BY <1>1, <1>2, <2>1 DEF Lag
  <2>3. QED  BY <1>1, <1>2, <1>4, <2>1, <2>2 DEF LagInv, PushingPcs
<1>10. QED  BY <1>7, <1>8, <1>9

LEMMA NextLagInv == ASSUME LatencyIsShort PROVE TypeOK /\ LagInv /\ [Next]_vars => LagInv'
<1> SUFFICES ASSUME TypeOK, LagInv, [Next]_vars PROVE LagInv'
  OBVIOUS
<1> USE DEF radioVars, powerVars, slotVars, heapVars
<1>1. CASE TxNext
  <2>1. CASE TxDumpStale \/ DeleteOldFiller("tx") \/ StoreNewFiller("tx")
    BY <2>1, ElsewhereLagInv DEF TxDumpStale, DeleteOldFiller, StoreNewFiller
  <2>2. CASE TxNoStale \/ TxTakeCurrent \/ TxCombine \/ TxNoCurrent \/ TxCopyFiller
    <3>1. tx.pc \in PushingPcs /\ tx'.pc \in PushingPcs
      <4>1. CASE TxNoStale  BY <4>1 DEF TxNoStale, PushingPcs, TypeOK
      <4>2. CASE TxTakeCurrent
        BY <4>2 DEF TxTakeCurrent, PushingPcs, TypeOK
      <4>3. CASE TxCombine  BY <4>3 DEF TxCombine, PushingPcs
      <4>4. CASE TxNoCurrent  BY <4>4 DEF TxNoCurrent, PushingPcs, TypeOK
      <4>5. CASE TxCopyFiller  BY <4>5 DEF TxCopyFiller, PushingPcs, TypeOK
      <4>6. QED  BY <2>2, <4>1, <4>2, <4>3, <4>4, <4>5
    <3>2. UNCHANGED <<clock, latencyVars, deadline>>
      BY <2>2 DEF TxNoStale, TxTakeCurrent, TxCombine, TxNoCurrent, TxCopyFiller
    <3>3. QED  BY <3>1, <3>2, ElsewhereLagInv
  <2>3. QED  BY <1>1, <2>1, <2>2, TxDueLagInv, AdaptLagInv, SendLagInv, WrapLagInv,
             CarryLagInv DEF TxNext
<1>2. CASE PqReads
  BY <1>2, ElsewhereLagInv DEF PqReads, PqMalformed, PqReceive
<1>3. CASE PqWorks
  BY <1>3, ElsewhereLagInv
  DEF PqWorks, PqStore, PqStored, SendIndication, DeleteOldFiller, StoreNewFiller
<1>4. CASE CtlReads
  BY <1>4, ElsewhereLagInv DEF CtlReads, CtlOtherCommand, CtlCommand
<1>5. CASE CtlWorks
  BY <1>5, ElsewhereLagInv
  DEF CtlWorks, CtlStartThreads, CtlTurnOn, CtlSetType, CtlSetModulus, SendIndication
<1>6. CASE Tick
  BY <1>6, TickLagInv
<1>7. CASE ReportUnderrun
  BY <1>7, ElsewhereLagInv DEF ReportUnderrun
<1>8. CASE UNCHANGED vars
  BY <1>8, ElsewhereLagInv DEF vars
<1>9. QED  BY <1>1, <1>2, <1>3, <1>4, <1>5, <1>6, <1>7, <1>8 DEF Next

\* While the distances stay within half a hyperframe, the transmit loop runs
\* ahead of the radio clock by the latency at most and, after the latency
\* was lowered during a push, by one slot more: in every interleaving with
\* the radio clock, for every frame length and width of the timeslot field
\* (Transceiver.cpp driveTransmitFIFO, gsmtime.h incTN and decTN).
THEOREM DeadlinesAreWithinLatency ==
  ASSUME LatencyIsShort PROVE Spec => []DeadlineWithinLatency
<1>1. Init => LagInv  BY InitLagInv
<1>2. TypeOK /\ LagInv /\ [Next]_vars => LagInv'  BY NextLagInv
<1>3. LagInv => DeadlineWithinLatency  BY DEF LagInv, DeadlineWithinLatency, Lag, LagFloor
<1>4. QED  BY <1>1, <1>2, <1>3, TypeCorrect, PTL DEF Spec
-----------------------------------------------------------------------------
(***************************************************************************)
(* The abstract schedule.  A burst that was mixed into another is deleted,  *)
(* yet stays booked until the vector it is part of is sent: MixInv says     *)
(* which bursts those are and that they all are for the slot that is due.   *)
(***************************************************************************)
MixInv ==
  /\ tx.mix # {} => tx.pc \in {"current", "combine", "send"}
  /\ tx.vec = NoBurst => tx.mix = {}
  /\ tx.vec # NoBurst => tx.vec \in tx.mix /\ heap[tx.vec] = deadline
  /\ tx.pc = "combine" => heap[tx.next] = deadline
  /\ \A b \in tx.mix : b # tx.vec => heap[b] = Freed

SlotOf(b) == IF heap[b] = Freed THEN DueSlot ELSE heap[b]
Bookings == [b \in Pending |-> SlotOf(b)]

\* The copy of the clock arithmetic in the abstract specification.
LEMMA SameFrames == Schedule!Frames = Frames /\ Schedule!Times = Times
  BY DEF Schedule!Frames, Frames, Schedule!Times, Times, Schedule!Timeslots, Timeslots

LEMMA SameTime == \A fn, tn : Schedule!Time(fn, tn) = Time(fn, tn)
  BY DEF Schedule!Time, Time

LEMMA SameIncTN == \A t : Schedule!IncTN(t, 1) = IncTN(t, 1)
  BY DEF Schedule!IncTN, IncTN, Schedule!Time, Time, Schedule!NextFrame, NextFrame

LEMMA SameLt == \A t, u : Schedule!Lt(t, u) = Lt(t, u)
  BY DEF Schedule!Lt, Lt, Schedule!FNCompare, FNCompare, Schedule!FNDelta, FNDelta,
         Schedule!HalfModulus, HalfModulus

LEMMA InitMixInv == Init => MixInv
  BY DEF Init, MixInv

LEMMA InitSchedule == Init => Schedule!Init
<1> SUFFICES ASSUME Init PROVE Schedule!Init
  OBVIOUS
<1>1. PICK fn \in Frames : clock = Time(fn, 0)  BY DEF Init
<1>2. DueSlot = Time(fn, 0)  BY <1>1 DEF Init, DueSlot
<1>3. Pending = {}  BY DEF Init, Pending
<1>4. [b \in Pending |-> IF heap[b] = Freed THEN DueSlot ELSE heap[b]] = [b \in {} |-> DueSlot]
  BY <1>3
<1>5. QED  BY <1>2, <1>4, SameFrames, SameTime DEF Schedule!Init

\* What the transmit thread is mixing is neither queued nor next, and what
\* waits in the queue is on the heap.
LEMMA MixIsApart ==
  ASSUME HeapInv, MixInv
  PROVE  /\ tx.mix \cap queue = {}
         /\ tx.pc = "combine" => tx.next \in Bursts /\ tx.next \notin tx.mix \cup queue
         /\ \A b \in queue : b \in Bursts /\ heap[b] # Freed
         /\ Freed \notin Times /\ (tx.pc # "carry" => deadline \in Times)
<1>1. \A b \in queue : heap[b] # Freed  BY DEF HeapInv, HeldOnce
<1>2. tx.mix \cap queue = {}
  <2> SUFFICES ASSUME NEW b \in tx.mix, b \in queue PROVE FALSE
    OBVIOUS
  <2>1. b = tx.vec /\ b # NoBurst  BY <1>1 DEF MixInv, HeapInv, TypeOK
  <2>2. QED  BY <2>1 DEF HeapInv, HeldOnce, HeldByTx
<1>3. ASSUME tx.pc = "combine"
      PROVE  tx.next \in Bursts /\ tx.next \notin tx.mix \cup queue
  <2>1. tx.next # NoBurst /\ tx.next \in Bursts /\ tx.next \in HeldByTx /\ tx.next # tx.vec
    BY <1>3 DEF HeapInv, HoldingDiscipline, TypeOK, HeldByTx, HeldOnce
  <2>2. heap[tx.next] # Freed  BY <2>1 DEF HeapInv, HeldOnce
  <2>3. QED  BY <2>1, <2>2 DEF MixInv, HeapInv, HeldOnce
<1>4. QED  BY <1>1, <1>2, <1>3 DEF HeapInv, TypeOK

\* Steps that neither book, retire nor transmit.
LEMMA BookingsStay ==
  ASSUME DueSlot' = DueSlot, Pending' = Pending,
         \A b \in Pending : SlotOf(b)' = SlotOf(b)
  PROVE  UNCHANGED Schedule!vars
<1>1. Bookings' = Bookings  BY DEF Bookings
<1>2. QED  BY <1>1 DEF Bookings, SlotOf, Schedule!vars

LEMMA ElsewhereSchedule ==
  ASSUME HeapInv, MixInv, UNCHANGED <<heap, queue, deadline>>,
         \/ tx' = tx
         \/ /\ tx'.mix = tx.mix /\ tx'.vec = tx.vec /\ tx'.next = tx.next
            /\ tx.pc \notin {"combine", "carry"} /\ tx'.pc \notin {"combine", "carry"}
            /\ tx.mix # {} => tx'.pc \in {"current", "send"}
  PROVE  MixInv' /\ UNCHANGED Schedule!vars
<1>1. DueSlot' = DueSlot  BY DEF DueSlot
<1>2. Pending' = Pending  BY DEF Pending
<1>3. \A b \in Pending : SlotOf(b)' = SlotOf(b)  BY <1>1 DEF SlotOf
<1>4. MixInv'  BY DEF MixInv
<1>5. QED  BY <1>1, <1>2, <1>3, <1>4, BookingsStay

LEMMA DumpSchedule ==
  ASSUME HeapInv, MixInv, TxDumpStale PROVE MixInv' /\ Schedule!Next
<1> USE DEF heapVars, radioVars
<1>1. PICK b \in Top : Lt(heap[b], deadline) /\ queue' = queue \ {b} /\ BeginSetFiller(b, FALSE)
  BY DEF TxDumpStale
<1>2. /\ b \in queue /\ b \in Bursts /\ heap[b] # Freed /\ tx' = tx /\ deadline' = deadline
      /\ tx.pc = "stale" /\ tx.mix = {} /\ tx.vec = NoBurst
  BY <1>1, MixIsApart DEF Top, TxDumpStale, MixInv, HeapInv, HoldingDiscipline
<1>3. heap' = heap \/ heap' = Delete(b)  BY <1>1 DEF BeginSetFiller
<1>4. \A c \in Bursts : c # b => heap'[c] = heap[c]
  BY <1>2, <1>3 DEF Delete, HeapInv, TypeOK
<1>5. DueSlot' = DueSlot /\ DueSlot = deadline  BY <1>2 DEF DueSlot
<1>6. Pending = queue /\ Pending' = Pending \ {b}  BY <1>1, <1>2 DEF Pending
<1>7. \A c \in Pending \ {b} : SlotOf(c)' = SlotOf(c)
  BY <1>4, <1>5, <1>6, MixIsApart DEF SlotOf
<1>8. Bookings' = [c \in Pending \ {b} |-> Bookings[c]] /\ Bookings[b] = heap[b]
  BY <1>2, <1>6, <1>7 DEF Bookings, SlotOf
<1>9. DOMAIN Bookings = Pending /\ b \in Pending  BY <1>2, <1>6 DEF Bookings
<1>10. Schedule!Lt(Bookings[b], DueSlot)  BY <1>1, <1>5, <1>8, SameLt
<1>11. Schedule!Retire(b)
  BY <1>5, <1>8, <1>9, <1>10 DEF Schedule!Retire, Schedule!Without, Bookings, SlotOf
<1>12. Schedule!Next  BY <1>9, <1>11 DEF Schedule!Next, Bookings, SlotOf
<1>13. MixInv'  BY <1>2 DEF MixInv
<1>14. QED  BY <1>12, <1>13

LEMMA TakeSchedule ==
  ASSUME HeapInv, MixInv, TxTakeCurrent PROVE MixInv' /\ UNCHANGED Schedule!vars
<1> USE DEF heapVars, radioVars
<1>1. PICK b \in Top : /\ heap[b] = deadline /\ queue' = queue \ {b}
                       /\ BeginSetFiller(b, TRUE)
                       /\ tx' = [tx EXCEPT !.pc = "combine", !.next = b]
  BY DEF TxTakeCurrent
<1>2. /\ b \in queue /\ heap' = heap /\ deadline' = deadline /\ tx.pc = "current"
      /\ tx'.pc = "combine" /\ tx'.next = b /\ tx'.mix = tx.mix /\ tx'.vec = tx.vec
  BY <1>1 DEF Top, TxTakeCurrent, BeginSetFiller, HeapInv, TypeOK
<1>3. DueSlot' = DueSlot  BY <1>2 DEF DueSlot
<1>4. Pending' = Pending  BY <1>1, <1>2 DEF Pending
<1>5. \A c \in Pending : SlotOf(c)' = SlotOf(c)  BY <1>2, <1>3 DEF SlotOf
<1>6. MixInv'  BY <1>1, <1>2 DEF MixInv
<1>7. QED  BY <1>3, <1>4, <1>5, <1>6, BookingsStay

LEMMA CombineSchedule ==
  ASSUME HeapInv, MixInv, TxCombine PROVE MixInv' /\ UNCHANGED Schedule!vars
<1> USE DEF heapVars, radioVars
<1>1. /\ tx.pc = "combine" /\ tx'.pc = "current" /\ tx'.mix = tx.mix \cup {tx.next}
      /\ tx'.vec = (IF tx.vec = NoBurst THEN tx.next ELSE tx.vec)
      /\ heap' = (IF tx.vec = NoBurst THEN heap ELSE Delete(tx.next))
      /\ queue' = queue /\ deadline' = deadline
  BY DEF TxCombine
<1>2. /\ tx.next \in Bursts /\ tx.next \notin tx.mix \cup queue /\ tx.next # NoBurst
      /\ heap[tx.next] = deadline /\ deadline # Freed /\ tx.next # tx.vec
  BY <1>1, MixIsApart DEF MixInv
<1>3. \A c \in Bursts : c # tx.next => heap'[c] = heap[c]
  BY <1>1, <1>2 DEF Delete, HeapInv, TypeOK
<1>4. heap'[tx.next] = IF tx.vec = NoBurst THEN deadline ELSE Freed
  BY <1>1, <1>2 DEF Delete, HeapInv, TypeOK
<1>5. DueSlot' = DueSlot /\ DueSlot = deadline  BY <1>1 DEF DueSlot
<1>6. Pending' = Pending  BY <1>1 DEF Pending
<1>7. Pending \subseteq Bursts  BY <1>1, <1>2 DEF Pending, HeapInv, TypeOK
<1>8. \A c \in Pending : SlotOf(c)' = SlotOf(c)
  <2>1. TAKE c \in Pending
  <2>2. CASE c = tx.next
    <3>1. SlotOf(c) = deadline  BY <1>2, <2>2 DEF SlotOf
    <3>2. (IF heap'[c] = Freed THEN DueSlot' ELSE heap'[c]) = deadline
      BY <1>4, <1>5, <2>2
    <3>3. QED  BY <3>1, <3>2 DEF SlotOf
  <2>3. CASE c # tx.next
    BY <1>3, <1>5, <1>7, <2>1, <2>3 DEF SlotOf
  <2>4. QED  BY <2>2, <2>3
<1>9. MixInv'
  <2>1. CASE tx.vec = NoBurst
    BY <1>1, <1>2, <2>1 DEF MixInv
  <2>2. CASE tx.vec # NoBurst
    <3>1. tx.vec \in Bursts /\ tx.mix \subseteq Bursts  BY <2>2 DEF HeapInv, TypeOK
    <3>2. heap'[tx.vec] = deadline  BY <1>2, <1>3, <2>2, <3>1 DEF MixInv
    <3>3. \A c \in tx'.mix : c # tx.vec => heap'[c] = Freed
      BY <1>1, <1>3, <1>4, <2>2, <3>1 DEF MixInv
    <3>4. QED  BY <1>1, <2>2, <3>2, <3>3 DEF MixInv
  <2>3. QED  BY <2>1, <2>2
<1>10. QED  BY <1>5, <1>6, <1>8, <1>9, BookingsStay

LEMMA SendSchedule ==
  ASSUME HeapInv, MixInv, TxSend PROVE MixInv' /\ Schedule!Next
<1> USE DEF heapVars, radioVars
<1>1. /\ tx.pc = "send" /\ tx'.pc # "combine" /\ tx'.mix = {} /\ tx'.vec = NoBurst
      /\ heap' = (IF tx.vec = NoBurst THEN heap ELSE Delete(tx.vec)) /\ queue' = queue
  BY DEF TxSend
<1>2. DueSlot' = IncTN(DueSlot, 1) /\ DueSlot = deadline
  BY <1>1, SendAdvances DEF HeapInv, DueSlot
<1>3. Pending = queue \cup tx.mix /\ Pending' = queue  BY <1>1 DEF Pending
<1>4. /\ tx.mix \cap queue = {} /\ \A b \in queue : b \in Bursts /\ heap[b] # Freed
      /\ deadline # Freed
  BY <1>1, MixIsApart
<1>5. \A b \in queue : heap'[b] = heap[b]
  BY <1>1, <1>4 DEF Delete, HeapInv, TypeOK, MixInv
<1>6. \A b \in queue : SlotOf(b)' = SlotOf(b)
  BY <1>4, <1>5 DEF SlotOf
<1>7. PICK S : S = tx.mix  OBVIOUS
<1>8. Bookings' = [b \in Pending \ S |-> Bookings[b]]
  <2>1. Pending \ S = queue  BY <1>3, <1>4, <1>7
  <2>2. QED  BY <1>3, <1>6, <2>1 DEF Bookings
<1>9. \A b \in S : Bookings[b] = DueSlot
  BY <1>2, <1>3, <1>7 DEF Bookings, SlotOf, MixInv
<1>10. DOMAIN Bookings = Pending /\ S \in SUBSET Pending  BY <1>3, <1>7 DEF Bookings
<1>11. Schedule!Transmit(S)
  BY <1>2, <1>8, <1>9, <1>10, SameIncTN
  DEF Schedule!Transmit, Schedule!Without, Bookings, SlotOf
<1>12. Schedule!Next  BY <1>10, <1>11 DEF Schedule!Next, Bookings, SlotOf
<1>13. MixInv'  BY <1>1 DEF MixInv
<1>14. QED  BY <1>12, <1>13

LEMMA WrapSchedule ==
  ASSUME HeapInv, MixInv, TxWrap PROVE MixInv' /\ UNCHANGED Schedule!vars
<1> USE DEF heapVars, radioVars
<1>1. tx.pc = "carry" /\ tx' = tx /\ heap' = heap /\ queue' = queue  BY DEF TxWrap
<1>2. DueSlot' = DueSlot  BY WrapStays DEF HeapInv
<1>3. Pending' = Pending  BY <1>1 DEF Pending
<1>4. \A b \in Pending : SlotOf(b)' = SlotOf(b)  BY <1>1, <1>2 DEF SlotOf
<1>5. tx.mix = {} /\ tx.vec = NoBurst  BY <1>1 DEF MixInv, HeapInv, HoldingDiscipline
<1>6. MixInv'  BY <1>1, <1>5 DEF MixInv
<1>7. QED  BY <1>2, <1>3, <1>4, <1>6, BookingsStay

LEMMA CarrySchedule ==
  ASSUME HeapInv, MixInv, TxCarry PROVE MixInv' /\ UNCHANGED Schedule!vars
<1> USE DEF heapVars, radioVars
<1>1. /\ tx.pc = "carry" /\ tx'.pc = "wait" /\ tx'.mix = tx.mix /\ tx'.vec = tx.vec
      /\ heap' = heap /\ queue' = queue
  BY DEF TxCarry, HeapInv, TypeOK
<1>2. DueSlot' = DueSlot  BY CarryStays DEF HeapInv
<1>3. Pending' = Pending  BY <1>1 DEF Pending
<1>4. \A b \in Pending : SlotOf(b)' = SlotOf(b)  BY <1>1, <1>2 DEF SlotOf
<1>5. tx.mix = {} /\ tx.vec = NoBurst  BY <1>1 DEF MixInv, HeapInv, HoldingDiscipline
<1>6. MixInv'  BY <1>1, <1>5 DEF MixInv
<1>7. QED  BY <1>2, <1>3, <1>4, <1>6, BookingsStay

\* A burst given to the filler table is no booking.
LEMMA StoreFillerSchedule ==
  ASSUME HeapInv, MixInv, NEW c \in FillerCallers, StoreNewFiller(c)
  PROVE  MixInv' /\ UNCHANGED Schedule!vars
<1> USE DEF heapVars, radioVars
<1> DEFINE b == call[c].burst
<1>1. /\ tx' = tx /\ queue' = queue /\ deadline' = deadline
      /\ heap' = IF call[c].allocate THEN heap ELSE Delete(b)
  BY DEF StoreNewFiller
<1>2. b \in Bursts /\ b # NoBurst /\ heap[b] # Freed
  BY DEF StoreNewFiller, HeapInv, HoldingDiscipline, TypeOK, HeldOnce, HeldByTx,
         HeldByPq, FillerCallers
<1>3. ~call[c].allocate => b \notin queue /\ b # tx.vec /\ b # tx.next
  <2>1. CASE c = "tx"
    BY <1>2, <2>1 DEF StoreNewFiller, HeapInv, HoldingDiscipline, HeldOnce, HeldByTx
  <2>2. CASE c = "pq"
    BY <1>2, <2>2 DEF HeapInv, HeldOnce, HeldByTx, HeldByPq
  <2>3. QED  BY <2>1, <2>2 DEF FillerCallers
<1>4. ~call[c].allocate => b \notin Pending  BY <1>2, <1>3 DEF Pending, MixInv
<1>5. DueSlot' = DueSlot /\ Pending' = Pending  BY <1>1 DEF DueSlot, Pending
<1>6. \A d \in Pending : d \in Bursts
  BY MixIsApart DEF Pending, HeapInv, TypeOK
<1>7. \A d \in Pending : heap'[d] = heap[d]
  BY <1>1, <1>4, <1>6 DEF Delete, HeapInv, TypeOK
<1>8. \A d \in Pending : SlotOf(d)' = SlotOf(d)  BY <1>5, <1>7 DEF SlotOf
<1>9. MixInv'
  <2>1. tx.mix \subseteq Pending /\ (tx.pc = "combine" => tx.next \in Pending)
    BY DEF Pending
  <2>2. tx.vec # NoBurst => tx.vec \in Pending  BY <2>1 DEF MixInv
  <2>3. QED  BY <1>1, <1>7, <2>1, <2>2 DEF MixInv
<1>10. QED  BY <1>5, <1>8, <1>9, BookingsStay

\* A burst is booked when it is queued.
LEMMA PqStoreSchedule ==
  ASSUME HeapInv, MixInv, PqStore
  PROVE  MixInv' /\ (Schedule!Next \/ UNCHANGED Schedule!vars)
<1> USE DEF heapVars, radioVars
<1>1. PICK b \in Bursts \ tx.mix, t \in Times :
        /\ heap[b] = Freed /\ heap' = [heap EXCEPT ![b] = t]
        /\ queue' = queue \/ queue' = queue \cup {b}
  BY DEF PqStore
<1>2. tx' = tx /\ deadline' = deadline /\ DueSlot' = DueSlot  BY DEF PqStore, DueSlot
<1>3. b \notin queue /\ (tx.pc = "combine" => b # tx.next) /\ b # tx.vec
  BY <1>1, MixIsApart DEF MixInv
<1>4. b \notin Pending  BY <1>1, <1>3 DEF Pending
<1>5. \A c \in Bursts : c # b => heap'[c] = heap[c]  BY <1>1 DEF HeapInv, TypeOK
<1>6. heap'[b] = t /\ t # Freed /\ t \in Times  BY <1>1 DEF HeapInv, TypeOK
<1>7. \A c \in Pending : c \in Bursts  BY MixIsApart DEF Pending, HeapInv, TypeOK
<1>8. \A c \in Pending : SlotOf(c)' = SlotOf(c)  BY <1>2, <1>4, <1>5, <1>7 DEF SlotOf
<1>9. MixInv'
  BY <1>1, <1>2, <1>3, <1>5, MixIsApart DEF MixInv, HeapInv, TypeOK
<1>10. CASE queue' = queue
  <2>1. Pending' = Pending  BY <1>2, <1>10 DEF Pending
  <2>2. QED  BY <1>2, <1>8, <1>9, <2>1, BookingsStay
<1>11. CASE queue' = queue \cup {b}
  <2>1. Pending' = Pending \cup {b}  BY <1>2, <1>11 DEF Pending
  <2>2. SlotOf(b)' = t  BY <1>6 DEF SlotOf
  <2>3. DOMAIN Bookings = Pending  BY DEF Bookings
  <2>4. Bookings' = [c \in Pending \cup {b} |-> IF c = b THEN t ELSE Bookings[c]]
    BY <1>4, <1>8, <2>1, <2>2 DEF Bookings
  <2>5. Schedule!Book(b, t)
    BY <1>2, <1>4, <2>3, <2>4 DEF Schedule!Book, Bookings, SlotOf
  <2>6. Schedule!Next  BY <1>1, <2>5, SameFrames DEF Schedule!Next
  <2>7. QED  BY <1>9, <2>6
<1>12. QED  BY <1>1, <1>10, <1>11

LEMMA NextSchedule ==
  HeapInv /\ MixInv /\ [Next]_vars => MixInv' /\ [Schedule!Next]_(Schedule!vars)
<1> SUFFICES ASSUME HeapInv, MixInv, [Next]_vars
             PROVE  MixInv' /\ (Schedule!Next \/ UNCHANGED Schedule!vars)
  OBVIOUS
<1> USE DEF radioVars, latencyVars, powerVars, slotVars, heapVars
<1>1. CASE TxNext
  <2>1. CASE TxDue \/ TxAdaptLatency \/ TxNoStale \/ TxNoCurrent \/ TxCopyFiller
    <3>1. UNCHANGED <<heap, queue, deadline>>
      BY <2>1 DEF TxDue, TxAdaptLatency, TxNoStale, TxNoCurrent, TxCopyFiller
    <3>2. tx'.mix = tx.mix /\ tx'.vec = tx.vec /\ tx'.next = tx.next
      BY <2>1 DEF TxDue, TxAdaptLatency, TxNoStale, TxNoCurrent, TxCopyFiller, HeapInv, TypeOK
    <3>3. /\ tx.pc \notin {"combine", "carry"} /\ tx'.pc \notin {"combine", "carry"}
          /\ tx.mix # {} => tx'.pc \in {"current", "send"}
      BY <2>1 DEF TxDue, TxAdaptLatency, TxNoStale, TxNoCurrent, TxCopyFiller, HeapInv,
                  TypeOK, MixInv
    <3>4. QED  BY <3>1, <3>2, <3>3, ElsewhereSchedule
  <2>2. CASE DeleteOldFiller("tx")
    BY <2>2, ElsewhereSchedule DEF DeleteOldFiller
  <2>3. CASE StoreNewFiller("tx")
    BY <2>3, StoreFillerSchedule DEF FillerCallers
  <2>4. QED
    BY <1>1, <2>1, <2>2, <2>3, DumpSchedule, TakeSchedule, CombineSchedule, SendSchedule,
       WrapSchedule, CarrySchedule DEF TxNext
<1>2. CASE PqReads
  BY <1>2, ElsewhereSchedule DEF PqReads, PqMalformed, PqReceive
<1>3. CASE PqWorks
  <2>1. CASE StoreNewFiller("pq")
    BY <2>1, StoreFillerSchedule DEF FillerCallers
  <2>2. CASE PqStored \/ SendIndication("pq") \/ DeleteOldFiller("pq")
    BY <2>2, ElsewhereSchedule DEF PqStored, SendIndication, DeleteOldFiller
  <2>3. QED  BY <1>3, <2>1, <2>2, PqStoreSchedule DEF PqWorks
<1>4. CASE CtlReads
  BY <1>4, ElsewhereSchedule DEF CtlReads, CtlOtherCommand, CtlCommand
<1>5. CASE CtlWorks
  BY <1>5, ElsewhereSchedule
  DEF CtlWorks, CtlStartThreads, CtlTurnOn, CtlSetType, CtlSetModulus, SendIndication
<1>6. CASE Tick \/ ReportUnderrun
  BY <1>6, ElsewhereSchedule DEF Tick, ReportUnderrun
<1>7. CASE UNCHANGED vars
  BY <1>7, ElsewhereSchedule DEF vars
<1>8. QED  BY <1>1, <1>2, <1>3, <1>4, <1>5, <1>6, <1>7 DEF Next

\* The threads, the queue, the filler table and the stores of incTN
\* together do what TransmitSchedule says: the slots are served one after the
\* other, and a burst leaves in its own slot, or late from the queue
\* (Transceiver.cpp driveTransmitFIFO, pushRadioVector, writePriorityQueue).
THEOREM ScheduleIsImplemented == Spec => ImplementsSchedule
<1>1. Init => Schedule!Init /\ MixInv  BY InitSchedule, InitMixInv
<1>2. HeapInv /\ MixInv /\ [Next]_vars => MixInv' /\ [Schedule!Next]_(Schedule!vars)
  BY NextSchedule
<1>3. QED  BY <1>1, <1>2, HeapInvariance, PTL DEF Spec, ImplementsSchedule, Schedule!Spec
===============================================================================
