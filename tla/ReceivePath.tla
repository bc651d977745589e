---------------------------- MODULE ReceivePath ----------------------------
(***************************************************************************)
(* The Transceiver's receive path: the control thread takes the commands of *)
(* the GSM core (driveControl) and the receive thread turns each burst of    *)
(* the receive FIFO into a report for the core (pullRadioVector), choosing   *)
(* the correlator by settings that the control thread writes meanwhile.      *)
(* There is no lock between them: one access to shared state is one action. *)
(* The clock indication that goes with each command is part of TransmitPath. *)
(* Waveforms are left out: a correlator has a result, a noise an energy.     *)
(* A definition marked "Fault" is what a plausible mistake would make of    *)
(* the definition after it; no specification uses it.                       *)
(***************************************************************************)
EXTENDS Integers

CONSTANTS
  NoiseCount,     \* NOISE_CNT, the noises that are averaged
  Combinations,   \* channel combinations the core asks for
  BurstFrames,    \* frame numbers of received bursts, modulo 51
  BadSlot,        \* no timeslot: as argument of a command, or in a burst time
  Timeslots,
  Codes,          \* arguments of SETTSC, and what an unset mTSC may hold
  Energies,       \* amplitudes of received bursts
  Delays, Gains, Frequencies, Powers, Steps   \* arguments of commands

Sequences == 0 .. 7      \* the training sequences there are
Unset == -1

Combination == {"FILL", "I", "II", "III", "IV", "V", "VI", "VII", "NONE",
                "LOOPBACK", "IGPRS", "other"}

ASSUME ReceivePathAssumption ==
  /\ NoiseCount \in Nat \ {0} /\ BurstFrames \subseteq 0 .. 50
  /\ Combinations \subseteq Combination
  /\ Timeslots \subseteq 0 .. 7 /\ BadSlot \notin Timeslots
  /\ Codes \subseteq Int /\ Energies \subseteq Nat
  /\ Delays \subseteq Nat /\ 0 \in Delays
  /\ Gains \subseteq Int /\ Frequencies \subseteq Nat \ {0}
  /\ Powers \subseteq Int /\ Steps \subseteq Int

VARIABLES
  on,         \* mOn
  starts,     \* times the radio and the service threads were started
  tuned,      \* mTxFreq and mRxFreq, 0 at the start
  power,      \* mPower
  radio,      \* what the radio was told: frequencies, gain, attenuation
  tsc,        \* mTSC, which the constructor leaves as it is
  midambles,  \* indices of gMidambles that hold a sequence
  chan,       \* mChanType
  handover,   \* mHandoverActive
  maxDelay,   \* mMaxExpectedDelay
  noises,     \* the ring mNoises
  noiseIt,    \* its iterator; NoiseCount is end()
  noiseLev,   \* mNoiseLev, as the noises it is the average of
  ctl,        \* control thread: pc, command, status of the response
  rx,         \* receive thread: pc, burst time, CorrType, sequence, result
  acked,      \* history: the settings of commands that were answered with 0
  asked,      \* history: the slot of the burst that is being classified, as it
              \* was at first and is now, and the changes in between
  recent      \* history: the last noises, the oldest first

radioVars == <<tuned, power, radio>>
powerVars == <<on, starts>>
sequenceVars == <<tsc, midambles>>
slotVars == <<chan, handover>>
noiseVars == <<noises, noiseIt, noiseLev, recent>>
settings == <<radioVars, powerVars, sequenceVars, slotVars, maxDelay>>
vars == <<settings, noiseVars, ctl, rx, acked, asked>>

NoCommand == [name |-> "none"]
IdleRx == [pc |-> "idle", tn |-> BadSlot, fn |-> 0, corr |-> "OFF",
           sync |-> Unset, result |-> 0]

\* What a slot's bursts are correlated by.
Expected(tn) == [heard |-> handover[tn], type |-> chan[tn]]
NotAsked == [before |-> [heard |-> FALSE, type |-> "NONE"],
             after |-> [heard |-> FALSE, type |-> "NONE"], changes |-> 0]

Silence == [k \in 0 .. NoiseCount - 1 |-> 0]

Init ==
  /\ on = FALSE /\ starts = 0
  /\ tuned = [tx |-> 0, rx |-> 0] /\ power = -10
  /\ radio = [tx |-> 0, rx |-> 0, gain |-> Unset, power |-> Unset]
  /\ tsc \in Codes /\ midambles = {}
  /\ chan = [tn \in Timeslots |-> "NONE"]
  /\ handover = [tn \in Timeslots |-> FALSE]
  /\ maxDelay = 0
  /\ noises = Silence /\ noiseIt = 0 /\ noiseLev = Silence /\ recent = Silence
  /\ ctl = [pc |-> "read", cmd |-> NoCommand, status |-> 0]
  /\ rx = IdleRx
  /\ acked = [chan |-> chan, handover |-> handover, maxDelay |-> 0,
              tsc |-> Unset, started |-> FALSE]
  /\ asked = NotAsked

-----------------------------------------------------------------------------
(* The control thread.                                                      *)

Command ==
  [name : {"POWEROFF", "POWERON", "NOISELEV", "READFACTORY", "OTHER"}]
  \cup [name : {"SETMAXDLY"}, arg : Delays] \cup [name : {"SETRXGAIN"}, arg : Gains]
  \cup [name : {"SETPOWER"}, arg : Powers] \cup [name : {"ADJPOWER"}, arg : Steps]
  \cup [name : {"RXTUNE", "TXTUNE"}, arg : Frequencies]
  \cup [name : {"SETTSC"}, arg : Codes]
  \cup [name : {"HANDOVER", "NOHANDOVER"}, tn : Timeslots \cup {BadSlot}]
  \cup [name : {"SETSLOT"}, tn : Timeslots \cup {BadSlot}, arg : Combinations]

\* A packet without "CMD" is read and forgotten; it changes nothing here.
CtlRead ==
  /\ ctl.pc = "read"
  /\ \E cmd \in Command : ctl' = [pc |-> "handle", cmd |-> cmd, status |-> 0]
  /\ UNCHANGED <<settings, noiseVars, rx, acked, asked>>

Handling(name) == ctl.pc = "handle" /\ ctl.cmd.name = name
Respond(status) == ctl' = [ctl EXCEPT !.pc = "respond", !.status = status]
Goto(step) == ctl' = [ctl EXCEPT !.pc = step]

\* POWEROFF only answers.
CtlPowerOff == Handling("POWEROFF") /\ Respond(0) /\ UNCHANGED settings

CtlNoiseLevel ==
  Handling("NOISELEV") /\ Respond(IF on THEN 0 ELSE 1) /\ UNCHANGED settings

\* READFACTORY fails; the reply to an unknown command is left to chance.
CtlNothing ==
  /\ \/ Handling("READFACTORY") /\ Respond(1)
     \/ Handling("OTHER") /\ \E status \in {0, 1} : Respond(status)
  /\ UNCHANGED settings

\* POWERON: the radio and the three threads are started, then mOn is set.
CtlPowerOn ==
  /\ Handling("POWERON")
  /\ IF tuned.tx = 0 \/ tuned.rx = 0
     THEN Respond(1) /\ UNCHANGED <<power, starts>>
     ELSE IF on
     THEN Respond(0) /\ UNCHANGED <<power, starts>>
     ELSE Goto("turnOn") /\ power' = -20 /\ starts' = starts + 1
  /\ UNCHANGED <<tuned, radio, on, sequenceVars, slotVars, maxDelay>>

\* Fault: the flag is not set.
OnForgotten == on

OnAfterStart == TRUE

CtlTurnOn ==
  /\ ctl.pc = "turnOn" /\ on' = OnAfterStart /\ Respond(0)
  /\ UNCHANGED <<radioVars, starts, sequenceVars, slotVars, maxDelay>>

\* SETMAXDLY
CtlMaxDelay ==
  /\ Handling("SETMAXDLY") /\ maxDelay' = ctl.cmd.arg /\ Respond(0)
  /\ UNCHANGED <<radioVars, powerVars, sequenceVars, slotVars>>

\* SETRXGAIN, RXTUNE and TXTUNE; the tuning of both devices always succeeds.
CtlTune ==
  /\ \/ /\ Handling("SETRXGAIN")
        /\ radio' = [radio EXCEPT !.gain = ctl.cmd.arg] /\ UNCHANGED tuned
     \/ /\ Handling("RXTUNE") /\ tuned' = [tuned EXCEPT !.rx = ctl.cmd.arg]
        /\ radio' = [radio EXCEPT !.rx = tuned'.rx]
     \/ /\ Handling("TXTUNE") /\ tuned' = [tuned EXCEPT !.tx = ctl.cmd.arg]
        /\ radio' = [radio EXCEPT !.tx = tuned'.tx]
  /\ Respond(0)
  /\ UNCHANGED <<power, powerVars, sequenceVars, slotVars, maxDelay>>

\* SETPOWER and ADJPOWER: only the first tells the radio.
CtlPower ==
  /\ \/ /\ Handling("SETPOWER") \/ Handling("ADJPOWER")
        /\ ~on /\ Respond(1) /\ UNCHANGED <<power, radio>>
     \/ /\ Handling("SETPOWER") /\ on /\ Respond(0)
        /\ power' = ctl.cmd.arg /\ radio' = [radio EXCEPT !.power = ctl.cmd.arg]
     \/ /\ Handling("ADJPOWER") /\ on /\ Respond(0)
        /\ power' = power + ctl.cmd.arg /\ UNCHANGED radio
  /\ UNCHANGED <<tuned, powerVars, sequenceVars, slotVars, maxDelay>>

\* Fault: the training sequence may change at any time.
MayChangeAlways == TRUE

MayChangeSequence == ~on

\* SETTSC: mTSC is set, and generateMidamble deletes the old sequence; it
\* gives up a code that is none, and the reply is 0 all the same.
CtlSetTsc ==
  /\ Handling("SETTSC")
  /\ \/ ~MayChangeSequence /\ Respond(1) /\ UNCHANGED sequenceVars
     \/ /\ MayChangeSequence /\ tsc' = ctl.cmd.arg
        /\ IF ctl.cmd.arg \in Sequences THEN Goto("generate") ELSE Respond(0)
        /\ midambles' = midambles \ {ctl.cmd.arg}
  /\ UNCHANGED <<radioVars, powerVars, slotVars, maxDelay>>

\* generateMidamble stores the new sequence.
CtlGenerate ==
  /\ ctl.pc = "generate"
  /\ midambles' = midambles \cup {ctl.cmd.arg} /\ Respond(0)
  /\ UNCHANGED <<radioVars, powerVars, tsc, slotVars, maxDelay>>

\* Fault: HANDOVER gives the slot its channel as well.
CtlHandoverOpens ==
  /\ Handling("HANDOVER") \/ Handling("NOHANDOVER")
  /\ IF ctl.cmd.tn \in Timeslots
     THEN /\ handover' = [handover EXCEPT ![ctl.cmd.tn] = (ctl.cmd.name = "HANDOVER")]
          /\ chan' = [chan EXCEPT ![ctl.cmd.tn] = IF handover'[ctl.cmd.tn] THEN "I" ELSE @]
          /\ Respond(0)
     ELSE Respond(1) /\ UNCHANGED slotVars
  /\ UNCHANGED <<radioVars, powerVars, sequenceVars, maxDelay>>

CtlHandover ==
  /\ Handling("HANDOVER") \/ Handling("NOHANDOVER")
  /\ IF ctl.cmd.tn \in Timeslots
     THEN /\ handover' = [handover EXCEPT ![ctl.cmd.tn] = (ctl.cmd.name = "HANDOVER")]
          /\ Respond(0)
     ELSE Respond(1) /\ UNCHANGED handover
  /\ UNCHANGED <<radioVars, powerVars, sequenceVars, chan, maxDelay>>

\* SETSLOT; for a slot that is none the function returns without a reply.
\* The filler moduli are part of TransmitPath.
CtlSetSlot ==
  /\ Handling("SETSLOT")
  /\ IF ctl.cmd.tn \in Timeslots
     THEN chan' = [chan EXCEPT ![ctl.cmd.tn] = ctl.cmd.arg] /\ Respond(0)
     ELSE Goto("read") /\ UNCHANGED chan
  /\ UNCHANGED <<radioVars, powerVars, sequenceVars, handover, maxDelay>>

\* The core may change the slot between the two reads of expectedCorrType.
Classifying == rx.pc \in {"handover", "type"} /\ rx.tn \in Timeslots
NoteChange ==
  asked' = IF Classifying /\ Expected(rx.tn)' # Expected(rx.tn)
           THEN IF asked.changes = 0
                THEN [asked EXCEPT !.after = Expected(rx.tn)', !.changes = 1]
                ELSE [NotAsked EXCEPT !.changes = 2]
           ELSE asked

CtlHandle ==
  /\ UNCHANGED <<noiseVars, rx, acked>>
  /\ \/ CtlPowerOff \/ CtlPowerOn \/ CtlTurnOn \/ CtlMaxDelay \/ CtlTune
     \/ CtlNoiseLevel \/ CtlPower \/ CtlNothing \/ CtlSetTsc \/ CtlGenerate \/ CtlHandover \/ CtlSetSlot
  /\ NoteChange

\* What an answer tells the core.
AckedAfter(cmd) ==
  CASE cmd.name = "POWERON" -> [acked EXCEPT !.started = TRUE]
    [] cmd.name = "SETMAXDLY" -> [acked EXCEPT !.maxDelay = cmd.arg]
    [] cmd.name = "SETTSC" -> [acked EXCEPT !.tsc = cmd.arg]
    [] cmd.name = "HANDOVER" -> [acked EXCEPT !.handover[cmd.tn] = TRUE]
    [] cmd.name = "NOHANDOVER" -> [acked EXCEPT !.handover[cmd.tn] = FALSE]
    [] cmd.name = "SETSLOT" -> [acked EXCEPT !.chan[cmd.tn] = cmd.arg]
    [] OTHER -> acked

CtlRespond ==
  /\ ctl.pc = "respond"
  /\ ctl' = [pc |-> "read", cmd |-> NoCommand, status |-> 0]
  /\ acked' = IF ctl.status = 0 THEN AckedAfter(ctl.cmd) ELSE acked
  /\ UNCHANGED <<settings, noiseVars, rx, asked>>

-----------------------------------------------------------------------------
(* The receive thread.                                                      *)

\* driveReceiveFIFO has a burst; its time may name no timeslot (RadioReceive).
RxTake ==
  /\ rx.pc = "idle" /\ starts > 0
  /\ \E tn \in Timeslots \cup {BadSlot}, fn \in BurstFrames :
       /\ rx' = [IdleRx EXCEPT !.pc = "handover", !.tn = tn, !.fn = fn]
       /\ asked' = IF tn \in Timeslots
                   THEN [NotAsked EXCEPT !.before = Expected(tn), !.after = Expected(tn)]
                   ELSE NotAsked
  /\ UNCHANGED <<settings, noiseVars, ctl, acked>>

Drop == rx' = IdleRx /\ asked' = NotAsked
Goes(next) == rx' = next /\ UNCHANGED asked
Classify(corr) == IF corr \in {"OFF", "IDLE"} THEN Drop
                  ELSE Goes([rx EXCEPT !.pc = "settings", !.corr = corr])

HandoverHeard(tn) == handover[tn]

\* A read outside the arrays gives any byte.
HandoverRead == IF rx.tn = BadSlot THEN BOOLEAN ELSE {HandoverHeard(rx.tn)}
TypeRead == IF rx.tn = BadSlot THEN Combination ELSE {chan[rx.tn]}

\* expectedCorrType reads the handover flag ...
RxReadHandover ==
  /\ rx.pc = "handover"
  /\ \E heard \in HandoverRead :
       IF heard THEN Classify("RACH") ELSE Goes([rx EXCEPT !.pc = "type"])
  /\ UNCHANGED <<settings, noiseVars, ctl, acked>>

AccessFrames51 == {4, 5} \cup 14 .. 36 \cup {45, 46}

\* What a combination expects in a frame.
CorrOf(type, fn) ==
  CASE type = "FILL" -> "IDLE"
    [] type \in {"I", "II", "III", "IGPRS"} -> "TSC"
    [] type \in {"IV", "VI"} -> "RACH"
    [] type = "V" -> IF fn \in AccessFrames51 THEN "RACH" ELSE "TSC"
    [] type = "VII" -> IF fn \in 12 .. 14 THEN "IDLE" ELSE "TSC"
    [] type = "LOOPBACK" -> IF fn \in 48 .. 50 THEN "IDLE" ELSE "TSC"
    [] OTHER -> "OFF"

\* ... and the channel type.
RxReadType ==
  /\ rx.pc = "type"
  /\ \E type \in TypeRead : Classify(CorrOf(type, rx.fn))
  /\ UNCHANGED <<settings, noiseVars, ctl, acked>>

\* mNoiseLev is updated; the correlator gets mTSC, mMaxExpectedDelay and
\* the pointer to the sequence.
RxReadSettings ==
  /\ rx.pc = "settings" /\ noiseLev' = noises
  /\ rx' = [rx EXCEPT !.pc = "correlate",
                      !.sync = IF rx.corr = "TSC" THEN tsc ELSE Unset]
  /\ UNCHANGED <<settings, noises, noiseIt, recent, ctl, acked, asked>>

\* detectBurst: whether the correlation has its peak in the window.
Peak == {0, 1}

\* analyzeTrafficBurst does not know a code that is none (-SIGERR_UNSUPPORTED),
TrafficResults == IF rx.sync \in Sequences THEN Peak ELSE {-1}

\* detectRACHBurst no clipped burst (-SIGERR_CLIP).
AccessResults == Peak \cup {-1}

Results == IF rx.corr = "RACH" THEN AccessResults ELSE TrafficResults

\* Fault: the last cell is not used.
NoiseCellWrapsEarly == IF noiseIt >= NoiseCount - 1 THEN 0 ELSE noiseIt

NoiseCell == IF noiseIt = NoiseCount THEN 0 ELSE noiseIt

\* Fault: the iterator comes back to the start one cell late.
NextNoiseBeyond == IF noiseIt > NoiseCount THEN 1 ELSE noiseIt + 1

NextNoise == NoiseCell + 1

InsertNoise(energy) ==
  /\ noises' = [noises EXCEPT ![NoiseCell] = energy]
  /\ noiseIt' = NextNoise
  /\ recent' = [k \in DOMAIN recent |-> IF k = NoiseCount - 1 THEN energy ELSE recent[k + 1]]
  /\ UNCHANGED noiseLev

\* A sequence that is not there is read all the same.
MissingSequence ==
  rx.corr = "TSC" /\ rx.sync \in Sequences /\ rx.sync \notin midambles

RxCrash ==
  /\ rx.pc = "correlate" /\ MissingSequence
  /\ rx' = [rx EXCEPT !.pc = "crashed"]
  /\ UNCHANGED <<settings, noiseVars, ctl, acked, asked>>

\* Only the access burst detector's errors end the call; "if (success)"
\* takes an error of the other one for a success.
RxCorrelate ==
  /\ rx.pc = "correlate" /\ ~MissingSequence
  /\ \E result \in Results :
       /\ IF result = 0
          THEN \E energy \in Energies : InsertNoise(energy)
          ELSE UNCHANGED noiseVars
       /\ IF result = 0 \/ (result < 0 /\ rx.corr = "RACH")
          THEN Drop
          ELSE Goes([rx EXCEPT !.pc = "report", !.result = result])
  /\ UNCHANGED <<settings, ctl, acked>>

\* The burst is demodulated and written to the core.
RxReport ==
  /\ rx.pc = "report" /\ Drop
  /\ UNCHANGED <<settings, noiseVars, ctl, acked>>

Next == \/ CtlRead \/ CtlHandle \/ CtlRespond
        \/ RxTake \/ RxReadHandover \/ RxReadType \/ RxReadSettings
        \/ RxCrash \/ RxCorrelate \/ RxReport

Spec == Init /\ [][Next]_vars

-----------------------------------------------------------------------------
Noises == [0 .. NoiseCount - 1 -> Nat]
CtlPcs == {"read", "handle", "turnOn", "generate", "respond"}
RxPcs == {"idle", "handover", "type", "settings", "correlate", "report", "crashed"}
Settings == [chan : [Timeslots -> Combination],
             handover : [Timeslots -> BOOLEAN], maxDelay : Nat, tsc : Int,
             started : BOOLEAN]
Slots == [heard : BOOLEAN, type : Combination]
AskedType == [before : Slots, after : Slots, changes : 0 .. 2]

\* Types; the noise iterator may stand at the end of the ring, not beyond.
TypeOK ==
  /\ on \in BOOLEAN /\ starts \in Nat
  /\ tuned \in [tx : Nat, rx : Nat] /\ power \in Int
  /\ radio \in [tx : Nat, rx : Nat, gain : Int, power : Int]
  /\ tsc \in Int /\ midambles \subseteq Sequences
  /\ chan \in [Timeslots -> Combination] /\ handover \in [Timeslots -> BOOLEAN]
  /\ maxDelay \in Nat
  /\ noises \in Noises /\ noiseIt \in 0 .. NoiseCount
  /\ noiseLev \in Noises /\ recent \in Noises
  /\ ctl \in [pc : CtlPcs, cmd : Command \cup {NoCommand}, status : {0, 1}]
  /\ rx \in [pc : RxPcs, tn : Timeslots \cup {BadSlot}, fn : 0 .. 50,
             corr : {"OFF", "TSC", "RACH", "IDLE"}, sync : Int, result : {-1, 0, 1}]
  /\ acked \in Settings /\ asked \in AskedType

\* Once the core has a reply to SETTSC, no burst is correlated with a training
\* sequence that is missing or that the control thread has deleted: SETTSC is
\* refused once the receive thread runs (driveControl, generateMidamble).
SequenceInPlace == acked.tsc # Unset => rx.pc # "crashed"

\* The settings in force are these.
InForce(told) ==
  /\ chan = told.chan /\ handover = told.handover /\ maxDelay = told.maxDelay
  /\ told.tsc \in {Unset, tsc}
  /\ starts = (IF told.started THEN 1 ELSE 0) /\ on = told.started

\* Between commands the settings are those the core was told of: each answer
\* comes after its effect, a command that is refused has none, and however
\* often the core repeats POWERON the threads are started once (driveControl).
AckedInForce == ctl.pc = "read" => InForce(acked)

\* What the core asked for in a slot: an access burst if it prepared it for a
\* handover, and else what the channel combination has in its uplink (Channel-
\* Combination in Transceiver.h); nothing in a slot without a channel.
AsAsked(slot) ==
  IF slot.heard THEN rx.corr = "RACH"
  ELSE /\ slot.type \notin {"NONE", "FILL"}
       /\ rx.corr = "RACH" => slot.type \in {"IV", "V", "VI"}
       /\ rx.corr = "TSC" => slot.type \notin {"IV", "VI"}

\* A burst is correlated as the core asked before or as it asked after, when
\* it changes the slot while the burst is being classified: expectedCorrType
\* reads the flag and the type one after the other without a lock, but a
\* single command never makes it use a mixture of both (HANDOVER, NOHANDOVER,
\* SETSLOT).  Two commands in between can.
CorrelatedAsAsked ==
  (/\ rx.pc \in {"settings", "correlate", "report"} /\ rx.tn \in Timeslots
   /\ asked.changes <= 1) => AsAsked(asked.before) \/ AsAsked(asked.after)

\* The ring holds the last noises, so that the noise level is the average of
\* NoiseCount noises without a gap, none of them counted twice (noiseVector).
RingIsRecent ==
  \A k \in 0 .. NoiseCount - 1 : noises[(noiseIt + k) % NoiseCount] = recent[k]

\* Only what a correlator found is reported to the core: its result is
\* "positive if threshold value is reached, negative on error" (sigProcLib.h).
ReportedWasDetected ==
  (rx.pc = "report" /\ rx.tn \in Timeslots) => rx.result > 0
=============================================================================
