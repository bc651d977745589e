-------------------------- MODULE ReceivePathProofs --------------------------
(***************************************************************************)
(* Theorems about ReceivePath, for every set of commands the core may send, *)
(* any timeslots and any length of the noise ring.                          *)
(***************************************************************************)
EXTENDS ReceivePath, TLAPS

-----------------------------------------------------------------------------
(* Types.                                                                   *)

LEMMA NotAskedType == NotAsked \in AskedType
BY DEF NotAsked, AskedType, Slots, Combination

LEMMA InitTypes == Init => TypeOK
<1> SUFFICES ASSUME Init PROVE TypeOK  OBVIOUS
<1> USE ReceivePathAssumption DEF Init
<1>1. Silence \in Noises  BY DEF Silence, Noises
<1>2. chan \in [Timeslots -> Combination]  BY DEF Combination
<1>3. ctl \in [pc : CtlPcs, cmd : Command \cup {NoCommand}, status : {0, 1}]
  BY DEF CtlPcs
<1>4. rx \in [pc : RxPcs, tn : Timeslots \cup {BadSlot}, fn : 0 .. 50,
              corr : {"OFF", "TSC", "RACH", "IDLE"}, sync : Int, result : {-1, 0, 1}]
  BY DEF IdleRx, RxPcs, Unset
<1>5. acked \in Settings
  BY <1>2 DEF Settings, Unset
<1>6. radio \in [tx : Nat, rx : Nat, gain : Int, power : Int]  BY DEF Unset
<1>7. /\ on \in BOOLEAN /\ starts \in Nat /\ power \in Int /\ tsc \in Int
      /\ midambles \subseteq Sequences /\ maxDelay \in Nat
  <2>1. power = -10 /\ starts = 0 /\ maxDelay = 0 /\ on \in BOOLEAN  OBVIOUS
  <2>2. tsc \in Int  OBVIOUS
  <2>3. QED  BY <2>1, <2>2
<1>8. tuned \in [tx : Nat, rx : Nat]  OBVIOUS
<1>9. handover \in [Timeslots -> BOOLEAN]  OBVIOUS
<1>10. /\ noises \in Noises /\ noiseIt \in 0 .. NoiseCount
       /\ noiseLev \in Noises /\ recent \in Noises
  BY <1>1
<1>11. asked \in AskedType  BY NotAskedType
<1> HIDE DEF Init
<1>12. QED
  BY <1>2, <1>3, <1>4, <1>5, <1>6, <1>7, <1>8, <1>9, <1>10, <1>11 DEF TypeOK

\* The arguments a command has.
LEMMA Arguments ==
  ASSUME NEW cmd \in Command
  PROVE  /\ cmd.name = "SETMAXDLY" => cmd.arg \in Nat
         /\ cmd.name = "SETRXGAIN" => cmd.arg \in Int
         /\ cmd.name \in {"SETPOWER", "ADJPOWER"} => cmd.arg \in Int
         /\ cmd.name \in {"RXTUNE", "TXTUNE"} => cmd.arg \in Nat
         /\ cmd.name = "SETTSC" => cmd.arg \in Int
         /\ cmd.name \in {"HANDOVER", "NOHANDOVER", "SETSLOT"} =>
              cmd.tn \in Timeslots \cup {BadSlot}
         /\ cmd.name = "SETSLOT" => cmd.arg \in Combination
BY ReceivePathAssumption DEF Command

LEMMA HandlesCommand ==
  ASSUME TypeOK, ctl.cmd.name # "none" PROVE ctl.cmd \in Command
BY DEF TypeOK, NoCommand

\* What the control thread does to its own state.
LEMMA CtlStep ==
  ASSUME TypeOK, CtlHandle
  PROVE  ctl' \in [pc : CtlPcs, cmd : Command \cup {NoCommand}, status : {0, 1}]
<1> USE DEF TypeOK, CtlPcs, Respond, Goto
<1>1. CASE CtlPowerOff \/ CtlNoiseLevel \/ CtlNothing
  BY <1>1 DEF CtlPowerOff, CtlNoiseLevel, CtlNothing
<1>2. CASE CtlPowerOn \/ CtlTurnOn \/ CtlMaxDelay  BY <1>2 DEF CtlPowerOn, CtlTurnOn, CtlMaxDelay
<1>3. CASE CtlTune \/ CtlPower  BY <1>3 DEF CtlTune, CtlPower
<1>4. CASE CtlSetTsc \/ CtlGenerate  BY <1>4 DEF CtlSetTsc, CtlGenerate
<1>5. CASE CtlHandover  BY <1>5 DEF CtlHandover
<1>6. CASE CtlSetSlot  BY <1>6 DEF CtlSetSlot
<1>7. QED  BY <1>1, <1>2, <1>3, <1>4, <1>5, <1>6 DEF CtlHandle

\* ... and to the settings.
LEMMA SettingsStep ==
  ASSUME TypeOK, CtlHandle, ctl.pc = "generate" => ctl.cmd.arg \in Sequences
  PROVE  /\ on' \in BOOLEAN /\ starts' \in Nat
         /\ tuned' \in [tx : Nat, rx : Nat] /\ power' \in Int
         /\ radio' \in [tx : Nat, rx : Nat, gain : Int, power : Int]
         /\ tsc' \in Int /\ midambles' \subseteq Sequences
         /\ chan' \in [Timeslots -> Combination] /\ handover' \in [Timeslots -> BOOLEAN]
         /\ maxDelay' \in Nat
<1> DEFINE arg == ctl.cmd.arg
<1>a. /\ on \in BOOLEAN /\ starts \in Nat
      /\ tuned \in [tx : Nat, rx : Nat] /\ power \in Int
      /\ radio \in [tx : Nat, rx : Nat, gain : Int, power : Int]
      /\ tsc \in Int /\ midambles \subseteq Sequences
      /\ chan \in [Timeslots -> Combination] /\ handover \in [Timeslots -> BOOLEAN]
      /\ maxDelay \in Nat
  BY DEF TypeOK
<1>b. /\ Handling("SETMAXDLY") => arg \in Nat
      /\ Handling("SETRXGAIN") => arg \in Int
      /\ Handling("RXTUNE") \/ Handling("TXTUNE") => arg \in Nat
      /\ Handling("SETPOWER") \/ Handling("ADJPOWER") => arg \in Int
      /\ Handling("SETTSC") => arg \in Int
      /\ Handling("SETSLOT") => arg \in Combination
  <2>1. ctl.pc = "handle" /\ ctl.cmd.name # "none" => ctl.cmd \in Command  BY HandlesCommand
  <2>2. Handling("SETMAXDLY") => arg \in Nat  BY <2>1, Arguments DEF Handling
  <2>3. Handling("SETRXGAIN") => arg \in Int  BY <2>1, Arguments DEF Handling
  <2>4. Handling("RXTUNE") => arg \in Nat  BY <2>1, Arguments DEF Handling
  <2>5. Handling("TXTUNE") => arg \in Nat  BY <2>1, Arguments DEF Handling
  <2>6. Handling("SETPOWER") => arg \in Int  BY <2>1, Arguments DEF Handling
  <2>7. Handling("ADJPOWER") => arg \in Int  BY <2>1, Arguments DEF Handling
  <2>8. Handling("SETTSC") => arg \in Int  BY <2>1, Arguments DEF Handling
  <2>9. Handling("SETSLOT") => arg \in Combination  BY <2>1, Arguments DEF Handling
  <2>10. QED  BY <2>2, <2>3, <2>4, <2>5, <2>6, <2>7, <2>8, <2>9
<1> HIDE DEF arg
<1> USE <1>a DEF settings, radioVars, powerVars, sequenceVars, slotVars
<1>1. CASE CtlPowerOff \/ CtlNoiseLevel \/ CtlNothing
  BY <1>1 DEF CtlPowerOff, CtlNoiseLevel, CtlNothing
<1>2. CASE CtlPowerOn \/ CtlTurnOn
  <2>1. CASE CtlPowerOn
    <3>1. power' \in Int /\ starts' \in Nat  BY <2>1 DEF CtlPowerOn
    <3>2. QED  BY <2>1, <3>1 DEF CtlPowerOn
  <2>2. CASE CtlTurnOn  BY <2>2 DEF CtlTurnOn, OnAfterStart
  <2>3. QED  BY <1>2, <2>1, <2>2
<1>3. CASE CtlMaxDelay  BY <1>3, <1>b DEF CtlMaxDelay, arg
<1>4. CASE CtlTune
  <2>1. /\ tuned' \in [tx : Nat, rx : Nat]
        /\ radio' \in [tx : Nat, rx : Nat, gain : Int, power : Int]
    <3>1. CASE /\ Handling("SETRXGAIN") /\ radio' = [radio EXCEPT !.gain = arg]
               /\ UNCHANGED tuned
      BY <3>1, <1>b
    <3>2. CASE /\ Handling("RXTUNE") /\ tuned' = [tuned EXCEPT !.rx = arg]
               /\ radio' = [radio EXCEPT !.rx = tuned'.rx]
      BY <3>2, <1>b
    <3>3. CASE /\ Handling("TXTUNE") /\ tuned' = [tuned EXCEPT !.tx = arg]
               /\ radio' = [radio EXCEPT !.tx = tuned'.tx]
      BY <3>3, <1>b
    <3>4. QED  BY <1>4, <3>1, <3>2, <3>3 DEF CtlTune, arg
  <2>2. QED  BY <1>4, <2>1 DEF CtlTune
<1>5. CASE CtlPower
  <2>1. power' \in Int /\ radio' \in [tx : Nat, rx : Nat, gain : Int, power : Int]
    <3>1. CASE power' = arg /\ radio' = [radio EXCEPT !.power = arg] /\ arg \in Int
      BY <3>1
    <3>2. CASE power' = power + arg /\ arg \in Int /\ UNCHANGED radio  BY <3>2
    <3>3. CASE UNCHANGED <<power, radio>>  BY <3>3
    <3>4. QED  BY <1>5, <1>b, <3>1, <3>2, <3>3 DEF CtlPower, arg
  <2>2. QED  BY <1>5, <2>1 DEF CtlPower
<1>6. CASE CtlSetTsc  BY <1>6, <1>b DEF CtlSetTsc, arg
<1>7. CASE CtlGenerate  BY <1>7 DEF CtlGenerate, arg
<1>8. CASE CtlHandover  BY <1>8 DEF CtlHandover
<1>9. CASE CtlSetSlot  BY <1>9, <1>b DEF CtlSetSlot, arg
<1>10. QED
  BY <1>1, <1>2, <1>3, <1>4, <1>5, <1>6, <1>7, <1>8, <1>9 DEF CtlHandle

-----------------------------------------------------------------------------
(* The invariant.                                                           *)

SlotsInForce ==
  chan = acked.chan /\ handover = acked.handover /\ maxDelay = acked.maxDelay

\* What the core will have been told once the response is sent.
Told == IF ctl.status = 0 THEN AckedAfter(ctl.cmd) ELSE acked

\* How far the settings are ahead of what the core knows, step by step.
ControlInv ==
  /\ ctl.pc # "read" => ctl.cmd \in Command
  /\ ctl.pc \in {"read", "handle"} => InForce(acked)
  /\ ctl.pc = "respond" => InForce(Told)
  /\ ctl.pc = "turnOn" =>
       /\ ctl.cmd.name = "POWERON" /\ SlotsInForce /\ acked.tsc \in {Unset, tsc}
       /\ starts = 1 /\ ~on /\ ~acked.started
  /\ ctl.pc = "generate" =>
       /\ ctl.cmd.name = "SETTSC" /\ SlotsInForce
       /\ ctl.cmd.arg \in Sequences /\ tsc = ctl.cmd.arg
       /\ starts = 0 /\ ~on /\ ~acked.started

SetTscAnswered == ctl.pc = "respond" /\ ctl.cmd.name = "SETTSC" /\ ctl.status = 0

\* Why the sequence is in place: it changes only before the threads start.
SequenceInv ==
  /\ rx.pc # "idle" => starts > 0
  /\ starts > 0 => ~SetTscAnswered
  /\ rx.pc = "correlate" /\ rx.corr = "TSC" => rx.sync = tsc
  /\ (acked.tsc # Unset \/ SetTscAnswered) /\ tsc \in Sequences /\ ctl.pc # "generate"
       => tsc \in midambles
  /\ SequenceInPlace

\* While a burst is being classified, the history knows its slot; the two
\* ends of one change differ in one of the fields, and the flag that was read
\* is the one of either end.
SlotKnown ==
  Classifying /\ asked.changes <= 1 =>
    /\ asked.after = Expected(rx.tn)
    /\ asked.changes = 0 => asked.before = asked.after
    /\ asked.before.heard = asked.after.heard \/ asked.before.type = asked.after.type
    /\ rx.pc = "type" => ~(asked.before.heard /\ asked.after.heard)

AskedInv == SlotKnown /\ CorrelatedAsAsked

PathInv == TypeOK /\ ControlInv /\ SequenceInv /\ AskedInv

-----------------------------------------------------------------------------
(* The control thread keeps it.                                             *)

\* What an answer to each command changes in the core's knowledge.
LEMMA AckedAfterIs ==
  ASSUME NEW cmd, acked \in Settings
  PROVE  /\ cmd.name = "POWERON" => AckedAfter(cmd) = [acked EXCEPT !.started = TRUE]
         /\ cmd.name = "SETMAXDLY" => AckedAfter(cmd) = [acked EXCEPT !.maxDelay = cmd.arg]
         /\ cmd.name = "SETTSC" => AckedAfter(cmd) = [acked EXCEPT !.tsc = cmd.arg]
         /\ cmd.name = "HANDOVER" =>
              AckedAfter(cmd) = [acked EXCEPT !.handover = [acked.handover EXCEPT ![cmd.tn] = TRUE]]
         /\ cmd.name = "NOHANDOVER" =>
              AckedAfter(cmd) = [acked EXCEPT !.handover = [acked.handover EXCEPT ![cmd.tn] = FALSE]]
         /\ cmd.name = "SETSLOT" =>
              AckedAfter(cmd) = [acked EXCEPT !.chan = [acked.chan EXCEPT ![cmd.tn] = cmd.arg]]
         /\ cmd.name \notin {"POWERON", "SETMAXDLY", "SETTSC", "HANDOVER", "NOHANDOVER", "SETSLOT"}
              => AckedAfter(cmd) = acked
BY DEF AckedAfter, Settings

\* A response that leaves the settings as they were told.
LEMMA Unheard ==
  ASSUME TypeOK, ControlInv, UNCHANGED <<settings, acked>>, ctl.pc = "handle",
         NEW status \in {0, 1}, Respond(status),
         status = 0 => AckedAfter(ctl.cmd) = acked
  PROVE  ControlInv'
<1>1. ctl' = [ctl EXCEPT !.pc = "respond", !.status = status] /\ ctl.cmd \in Command
  BY DEF Respond, ControlInv
<1>2. ctl'.pc = "respond" /\ ctl'.cmd = ctl.cmd /\ ctl'.status = status
  BY <1>1 DEF TypeOK
<1>3. Told' = acked
  BY <1>2 DEF Told, AckedAfter
<1>4. InForce(acked)'
  BY DEF ControlInv, InForce, settings, powerVars, sequenceVars, slotVars
<1>5. InForce(Told)'  BY <1>3, <1>4 DEF InForce
<1>6. QED  BY <1>1, <1>2, <1>5 DEF ControlInv

\* A response after its effect.
LEMMA Heard ==
  ASSUME TypeOK, UNCHANGED acked, ctl.cmd \in Command, Respond(0),
         NEW told, AckedAfter(ctl.cmd) = told,
         /\ chan' = told.chan /\ handover' = told.handover /\ maxDelay' = told.maxDelay
         /\ told.tsc \in {Unset, tsc'}
         /\ starts' = (IF told.started THEN 1 ELSE 0) /\ on' = told.started
  PROVE  ControlInv'
<1>1. ctl' = [ctl EXCEPT !.pc = "respond", !.status = 0]  BY DEF Respond
<1>2. ctl'.pc = "respond" /\ ctl'.cmd = ctl.cmd /\ ctl'.status = 0
  BY <1>1 DEF TypeOK
<1>3. Told' = told  BY <1>2 DEF Told, AckedAfter
<1>4. InForce(Told)'  BY <1>3 DEF InForce
<1>5. QED  BY <1>2, <1>4 DEF ControlInv

LEMMA HandleControl ==
  ASSUME TypeOK, ControlInv, CtlHandle, UNCHANGED acked PROVE ControlInv'
<1> DEFINE cmd == ctl.cmd
<1>a. acked \in Settings /\ ctl \in [pc : CtlPcs, cmd : Command \cup {NoCommand}, status : {0, 1}]
  BY DEF TypeOK
<1>b. ctl.pc = "handle" => InForce(acked) /\ cmd \in Command
  BY DEF ControlInv
<1>c. acked.chan \in [Timeslots -> Combination] /\ acked.handover \in [Timeslots -> BOOLEAN]
  BY <1>a DEF Settings
<1>1. CASE CtlPowerOff \/ CtlNoiseLevel \/ CtlNothing
  <2>1. PICK status \in {0, 1} : /\ Respond(status) /\ ctl.pc = "handle" /\ UNCHANGED settings
                                 /\ cmd.name \in {"POWEROFF", "NOISELEV", "READFACTORY", "OTHER"}
    BY <1>1 DEF CtlPowerOff, CtlNoiseLevel, CtlNothing, Handling
  <2>2. AckedAfter(cmd) = acked  BY <2>1, <1>a, AckedAfterIs
  <2>3. QED  BY <2>1, <2>2, Unheard
<1>2. CASE CtlPowerOn
  <2>1. cmd.name = "POWERON" /\ ctl.pc = "handle"  BY <1>2 DEF CtlPowerOn, Handling
  <2>2. CASE Respond(1) /\ UNCHANGED <<power, starts>>
    <3>1. ctl' = [ctl EXCEPT !.pc = "respond", !.status = 1]  BY <2>2 DEF Respond
    <3>2. Told' = acked  BY <3>1, <1>a DEF Told
    <3>3. InForce(acked)'
      BY <1>2, <2>1, <2>2, <1>b DEF CtlPowerOn, InForce, sequenceVars, slotVars
    <3>4. InForce(Told)'  BY <3>2, <3>3 DEF InForce
    <3>5. QED  BY <3>1, <3>4, <1>a, <1>b, <2>1 DEF ControlInv
  <2>3. CASE on /\ Respond(0) /\ UNCHANGED <<power, starts>>
    <3>1. ctl' = [ctl EXCEPT !.pc = "respond", !.status = 0]  BY <2>3 DEF Respond
    <3>2. Told' = AckedAfter(cmd)'  BY <3>1, <1>a DEF Told
    <3>3. AckedAfter(cmd)' = [acked EXCEPT !.started = TRUE]
      <4>1. cmd' = cmd  BY <3>1, <1>a
      <4>2. acked' \in Settings  BY <1>a
      <4>3. QED  BY <4>1, <4>2, <2>1, AckedAfterIs DEF AckedAfter
    <3>4. acked.started = TRUE  BY <2>1, <2>3, <1>b DEF InForce
    <3>5. [acked EXCEPT !.started = TRUE] = acked  BY <3>4, <1>a DEF Settings
    <3>6. InForce(acked)'
      BY <1>2, <2>1, <2>3, <1>b DEF CtlPowerOn, InForce, sequenceVars, slotVars
    <3>7. InForce(Told)'  BY <3>2, <3>3, <3>5, <3>6 DEF InForce
    <3>8. QED  BY <3>1, <3>7, <1>a, <1>b, <2>1 DEF ControlInv
  <2>4. CASE ~on /\ Goto("turnOn") /\ starts' = starts + 1
    <3>1. ctl' = [ctl EXCEPT !.pc = "turnOn"]  BY <2>4 DEF Goto
    <3>2. starts = 0 /\ ~acked.started  BY <2>1, <2>4, <1>b, <1>a DEF InForce, Settings
    <3>3. QED
      BY <1>2, <2>1, <2>4, <3>1, <3>2, <1>a, <1>b
      DEF ControlInv, CtlPowerOn, InForce, SlotsInForce, sequenceVars, slotVars
  <2>5. QED  BY <1>2, <2>2, <2>3, <2>4 DEF CtlPowerOn
<1>3. CASE CtlTurnOn
  <2>1. /\ cmd.name = "POWERON" /\ SlotsInForce /\ acked.tsc \in {Unset, tsc}
        /\ starts = 1 /\ cmd \in Command
    BY <1>3 DEF CtlTurnOn, ControlInv
  <2>2. AckedAfter(cmd) = [acked EXCEPT !.started = TRUE]  BY <2>1, <1>a, AckedAfterIs
  <2>3. /\ chan' = acked.chan /\ handover' = acked.handover /\ maxDelay' = acked.maxDelay
        /\ acked.tsc \in {Unset, tsc'} /\ starts' = 1 /\ on' = TRUE /\ Respond(0)
    BY <1>3, <2>1 DEF CtlTurnOn, SlotsInForce, OnAfterStart, sequenceVars, slotVars
  <2>4. QED  BY <2>1, <2>2, <2>3, <1>a, Heard DEF Settings
<1>4. CASE CtlMaxDelay
  <2>1. cmd.name = "SETMAXDLY" /\ ctl.pc = "handle"  BY <1>4 DEF CtlMaxDelay, Handling
  <2>2. AckedAfter(cmd) = [acked EXCEPT !.maxDelay = cmd.arg]  BY <2>1, <1>a, AckedAfterIs
  <2>3. QED
    BY <1>4, <2>1, <2>2, <1>a, <1>b, Heard
    DEF CtlMaxDelay, InForce, Settings, powerVars, sequenceVars, slotVars
<1>5. CASE CtlTune
  <2>1. cmd.name \in {"SETRXGAIN", "RXTUNE", "TXTUNE"} /\ ctl.pc = "handle"
    BY <1>5 DEF CtlTune, Handling
  <2>2. AckedAfter(cmd) = acked  BY <2>1, <1>a, AckedAfterIs
  <2>3. QED
    BY <1>5, <2>1, <2>2, <1>a, <1>b, Heard
    DEF CtlTune, InForce, powerVars, sequenceVars, slotVars
<1>6. CASE CtlPower
  <2>1. cmd.name \in {"SETPOWER", "ADJPOWER"} /\ ctl.pc = "handle"
    BY <1>6 DEF CtlPower, Handling
  <2>2. AckedAfter(cmd) = acked  BY <2>1, <1>a, AckedAfterIs
  <2>3. InForce(acked)'
    BY <1>6, <2>1, <1>b DEF CtlPower, InForce, powerVars, sequenceVars, slotVars
  <2>4. PICK status \in {0, 1} : Respond(status)  BY <1>6 DEF CtlPower
  <2>5. ctl' = [ctl EXCEPT !.pc = "respond", !.status = status]  BY <2>4 DEF Respond
  <2>6. ctl'.pc = "respond" /\ ctl'.cmd = cmd  BY <2>5, <1>a
  <2>7. Told' = acked  BY <2>6, <2>2 DEF Told, AckedAfter
  <2>8. InForce(Told)'  BY <2>3, <2>7 DEF InForce
  <2>9. QED  BY <2>1, <2>6, <2>8, <1>b DEF ControlInv
<1>7. CASE CtlSetTsc
  <2>1. cmd.name = "SETTSC" /\ ctl.pc = "handle" /\ cmd \in Command
    BY <1>7, <1>b DEF CtlSetTsc, Handling
  <2>2. AckedAfter(cmd) = [acked EXCEPT !.tsc = cmd.arg]  BY <2>1, <1>a, AckedAfterIs
  <2>3. UNCHANGED <<chan, handover, maxDelay, starts, on>>
    BY <1>7 DEF CtlSetTsc, powerVars, slotVars
  <2>4. CASE Respond(1) /\ UNCHANGED sequenceVars
    <3>1. ctl' = [ctl EXCEPT !.pc = "respond", !.status = 1]  BY <2>4 DEF Respond
    <3>2. Told' = acked  BY <3>1, <1>a DEF Told
    <3>3. InForce(Told)'  BY <2>1, <2>3, <2>4, <3>2, <1>b DEF InForce, sequenceVars
    <3>4. QED  BY <2>1, <3>1, <3>3, <1>a DEF ControlInv
  <2>5. CASE tsc' = cmd.arg /\ Respond(0)
    BY <2>1, <2>2, <2>3, <2>5, <1>a, <1>b, Heard DEF InForce, Settings
  <2>6. CASE tsc' = cmd.arg /\ cmd.arg \in Sequences /\ Goto("generate") /\ ~on
    <3>1. ctl' = [ctl EXCEPT !.pc = "generate"]  BY <2>6 DEF Goto
    <3>2. ctl'.pc = "generate" /\ ctl'.cmd = cmd  BY <3>1, <1>a
    <3>3. starts = 0 /\ ~acked.started  BY <2>1, <2>6, <1>a, <1>b DEF InForce, Settings
    <3>4. SlotsInForce'  BY <2>1, <2>3, <1>b DEF SlotsInForce, InForce
    <3>5. QED  BY <2>1, <2>3, <2>6, <3>2, <3>3, <3>4 DEF ControlInv
  <2>7. QED  BY <1>7, <2>4, <2>5, <2>6 DEF CtlSetTsc, MayChangeSequence
<1>8. CASE CtlGenerate
  <2>1. /\ cmd.name = "SETTSC" /\ SlotsInForce /\ tsc = cmd.arg /\ cmd \in Command
        /\ starts = 0 /\ ~on /\ ~acked.started
    BY <1>8 DEF CtlGenerate, ControlInv
  <2>2. AckedAfter(cmd) = [acked EXCEPT !.tsc = cmd.arg]  BY <2>1, <1>a, AckedAfterIs
  <2>3. Respond(0) /\ UNCHANGED <<chan, handover, maxDelay, starts, on, tsc>>
    BY <1>8 DEF CtlGenerate, powerVars, slotVars
  <2>4. starts' = 0 /\ on' = FALSE /\ acked.started = FALSE
    BY <2>1, <2>3, <1>a DEF TypeOK, Settings
  <2>5. QED  BY <2>1, <2>2, <2>3, <2>4, <1>a, Heard DEF SlotsInForce, Settings
<1>9. CASE CtlHandover
  <2>1. /\ cmd.name \in {"HANDOVER", "NOHANDOVER"} /\ ctl.pc = "handle"
        /\ cmd \in Command /\ InForce(acked)
    BY <1>9, <1>b DEF CtlHandover, Handling
  <2>2. UNCHANGED <<chan, maxDelay, starts, on, tsc>>
    BY <1>9 DEF CtlHandover, powerVars, sequenceVars
  <2>3. CASE Respond(1) /\ UNCHANGED handover
    <3>1. ctl' = [ctl EXCEPT !.pc = "respond", !.status = 1]  BY <2>3 DEF Respond
    <3>2. Told' = acked  BY <3>1, <1>a DEF Told
    <3>3. InForce(Told)'  BY <2>1, <2>2, <2>3, <3>2 DEF InForce
    <3>4. QED  BY <2>1, <3>1, <3>3, <1>a DEF ControlInv
  <2>4. CASE Respond(0) /\ handover' = [handover EXCEPT ![cmd.tn] = (cmd.name = "HANDOVER")]
    <3>1. CASE cmd.name = "HANDOVER"
      <4>1. AckedAfter(cmd)
              = [acked EXCEPT !.handover = [acked.handover EXCEPT ![cmd.tn] = TRUE]]
        BY <3>1, <1>a, AckedAfterIs
      <4>2. handover' = [acked.handover EXCEPT ![cmd.tn] = TRUE]
        BY <2>1, <2>4, <3>1 DEF InForce
      <4>3. QED  BY <2>1, <2>2, <2>4, <4>1, <4>2, <1>a, Heard DEF InForce, Settings
    <3>2. CASE cmd.name = "NOHANDOVER"
      <4>1. AckedAfter(cmd)
              = [acked EXCEPT !.handover = [acked.handover EXCEPT ![cmd.tn] = FALSE]]
        BY <3>2, <1>a, AckedAfterIs
      <4>2. handover' = [acked.handover EXCEPT ![cmd.tn] = FALSE]
        BY <2>1, <2>4, <3>2 DEF InForce
      <4>3. QED  BY <2>1, <2>2, <2>4, <4>1, <4>2, <1>a, Heard DEF InForce, Settings
    <3>3. QED  BY <2>1, <3>1, <3>2
  <2>5. QED  BY <1>9, <2>3, <2>4 DEF CtlHandover
<1>10. CASE CtlSetSlot
  <2>1. cmd.name = "SETSLOT" /\ ctl.pc = "handle" /\ cmd \in Command /\ InForce(acked)
    BY <1>10, <1>b DEF CtlSetSlot, Handling
  <2>2. UNCHANGED <<handover, maxDelay, starts, on, tsc>>
    BY <1>10 DEF CtlSetSlot, powerVars, sequenceVars
  <2>3. CASE Goto("read") /\ UNCHANGED chan
    <3>1. ctl'.pc = "read"  BY <2>3, <1>a DEF Goto
    <3>2. InForce(acked)'  BY <2>1, <2>2, <2>3 DEF InForce
    <3>3. QED  BY <3>1, <3>2 DEF ControlInv
  <2>4. CASE Respond(0) /\ chan' = [chan EXCEPT ![cmd.tn] = cmd.arg]
    <3>1. AckedAfter(cmd) = [acked EXCEPT !.chan = [acked.chan EXCEPT ![cmd.tn] = cmd.arg]]
      BY <2>1, <1>a, AckedAfterIs
    <3>2. QED  BY <2>1, <2>2, <2>4, <3>1, <1>a, Heard DEF InForce, Settings
  <2>5. QED  BY <1>10, <2>3, <2>4 DEF CtlSetSlot
<1>11. QED
  BY <1>1, <1>2, <1>3, <1>4, <1>5, <1>6, <1>7, <1>8, <1>9, <1>10 DEF CtlHandle

LEMMA ReadControl == ASSUME TypeOK, ControlInv, CtlRead PROVE ControlInv'
<1>1. PICK cmd \in Command : ctl' = [pc |-> "handle", cmd |-> cmd, status |-> 0]
  BY DEF CtlRead
<1>2. InForce(acked)'
  BY DEF CtlRead, ControlInv, InForce, settings, powerVars, sequenceVars, slotVars
<1>3. QED  BY <1>1, <1>2 DEF ControlInv

LEMMA RespondControl == ASSUME TypeOK, ControlInv, CtlRespond PROVE ControlInv'
<1>1. ctl'.pc = "read" /\ acked' = Told  BY DEF CtlRespond, Told
<1>2. InForce(Told)  BY DEF CtlRespond, ControlInv
<1>3. InForce(acked)'
  BY <1>1, <1>2 DEF CtlRespond, InForce, settings, powerVars, sequenceVars, slotVars
<1>4. QED  BY <1>1, <1>3 DEF ControlInv

\* What the core knows is of its type.
LEMMA AckedType ==
  ASSUME TypeOK, ControlInv, CtlRespond PROVE acked' \in Settings
<1> DEFINE cmd == ctl.cmd
<1>1. cmd \in Command /\ acked \in Settings  BY DEF TypeOK, ControlInv, CtlRespond
<1>2. CASE acked' = acked  BY <1>1, <1>2
<1>3. CASE acked' = AckedAfter(cmd)
  <2>1. acked.chan \in [Timeslots -> Combination] /\ acked.handover \in [Timeslots -> BOOLEAN]
    BY <1>1 DEF Settings
  <2>2. CASE cmd.name = "POWERON"
    <3>1. acked' = [acked EXCEPT !.started = TRUE]  BY <1>1, <1>3, <2>2, AckedAfterIs
    <3>2. QED  BY <1>1, <3>1 DEF Settings
  <2>3. CASE cmd.name = "SETMAXDLY"
    <3>1. acked' = [acked EXCEPT !.maxDelay = cmd.arg]  BY <1>1, <1>3, <2>3, AckedAfterIs
    <3>2. cmd.arg \in Nat  BY <1>1, <2>3, Arguments
    <3>3. QED  BY <1>1, <3>1, <3>2 DEF Settings
  <2>4. CASE cmd.name = "SETTSC"
    <3>1. acked' = [acked EXCEPT !.tsc = cmd.arg]  BY <1>1, <1>3, <2>4, AckedAfterIs
    <3>2. cmd.arg \in Int  BY <1>1, <2>4, Arguments
    <3>3. QED  BY <1>1, <3>1, <3>2 DEF Settings
  <2>5. CASE cmd.name \in {"HANDOVER", "NOHANDOVER"}
    <3>1. PICK flag \in BOOLEAN :
            acked' = [acked EXCEPT !.handover = [acked.handover EXCEPT ![cmd.tn] = flag]]
      BY <1>1, <1>3, <2>5, AckedAfterIs
    <3>2. [acked.handover EXCEPT ![cmd.tn] = flag] \in [Timeslots -> BOOLEAN]  BY <2>1
    <3>3. QED  BY <1>1, <3>1, <3>2 DEF Settings
  <2>6. CASE cmd.name = "SETSLOT"
    <3>1. [acked.chan EXCEPT ![cmd.tn] = cmd.arg] \in [Timeslots -> Combination]
      BY <1>1, <2>1, <2>6, Arguments
    <3>2. acked' = [acked EXCEPT !.chan = [acked.chan EXCEPT ![cmd.tn] = cmd.arg]]
      BY <1>1, <1>3, <2>6, AckedAfterIs
    <3>3. QED  BY <1>1, <3>1, <3>2 DEF Settings
  <2>7. CASE cmd.name \notin {"POWERON", "SETMAXDLY", "SETTSC", "HANDOVER", "NOHANDOVER",
                              "SETSLOT"}
    BY <1>1, <1>3, <2>7, AckedAfterIs
  <2>8. QED  BY <2>2, <2>3, <2>4, <2>5, <2>6, <2>7
<1>4. QED  BY <1>2, <1>3 DEF CtlRespond

-----------------------------------------------------------------------------
(* The receive thread.                                                      *)

RxStep == RxTake \/ RxReadHandover \/ RxReadType \/ RxReadSettings
          \/ RxCrash \/ RxCorrelate \/ RxReport

LEMMA RxLeavesSettings == RxStep => UNCHANGED <<settings, ctl, acked>>
BY DEF RxStep, RxTake, RxReadHandover, RxReadType, RxReadSettings, RxCrash, RxCorrelate,
       RxReport

LEMMA CorrOfType ==
  ASSUME NEW type \in Combination, NEW fn \in 0 .. 50
  PROVE  CorrOf(type, fn) \in {"OFF", "TSC", "RACH", "IDLE"}
BY DEF CorrOf, Combination

LEMMA NoiseTypes ==
  ASSUME TypeOK, NEW energy \in Energies, InsertNoise(energy)
  PROVE  /\ noises' \in Noises /\ noiseIt' \in 0 .. NoiseCount
         /\ noiseLev' \in Noises /\ recent' \in Noises
<1> USE ReceivePathAssumption
<1>1. NoiseCell \in 0 .. NoiseCount - 1  BY DEF TypeOK, NoiseCell
<1>2. energy \in Nat  OBVIOUS
<1>3. noises' \in Noises  BY <1>2 DEF InsertNoise, TypeOK, Noises
<1>4. noiseIt' \in 0 .. NoiseCount  BY <1>1 DEF InsertNoise, NextNoise
<1>5. recent' \in Noises
  <2>1. DOMAIN recent = 0 .. NoiseCount - 1  BY DEF TypeOK, Noises
  <2>2. \A k \in 0 .. NoiseCount - 1 : k # NoiseCount - 1 => recent[k + 1] \in Nat
    BY DEF TypeOK, Noises
  <2>3. QED  BY <1>2, <2>1, <2>2 DEF InsertNoise, Noises
<1>6. QED  BY <1>3, <1>4, <1>5 DEF InsertNoise, TypeOK

LEMMA RxTypes ==
  ASSUME TypeOK, RxStep
  PROVE  /\ rx' \in [pc : RxPcs, tn : Timeslots \cup {BadSlot}, fn : 0 .. 50,
                     corr : {"OFF", "TSC", "RACH", "IDLE"}, sync : Int, result : {-1, 0, 1}]
         /\ asked' \in AskedType
         /\ noises' \in Noises /\ noiseIt' \in 0 .. NoiseCount
         /\ noiseLev' \in Noises /\ recent' \in Noises
<1> DEFINE RxType == [pc : RxPcs, tn : Timeslots \cup {BadSlot}, fn : 0 .. 50,
                      corr : {"OFF", "TSC", "RACH", "IDLE"}, sync : Int, result : {-1, 0, 1}]
<1>a. /\ rx \in RxType /\ asked \in AskedType /\ NotAsked \in AskedType
      /\ noises \in Noises /\ noiseIt \in 0 .. NoiseCount
      /\ noiseLev \in Noises /\ recent \in Noises /\ tsc \in Int
      /\ chan \in [Timeslots -> Combination] /\ handover \in [Timeslots -> BOOLEAN]
  BY NotAskedType DEF TypeOK
<1>b. IdleRx \in RxType  BY DEF IdleRx, RxPcs, Unset
<1>c. ASSUME NEW corr \in {"OFF", "TSC", "RACH", "IDLE"}, Classify(corr)
      PROVE  rx' \in RxType /\ asked' \in AskedType
  BY <1>a, <1>b, <1>c DEF Classify, Goes, Drop, RxPcs
<1>1. CASE RxTake
  <2>1. rx' \in RxType  BY <1>1, <1>b, ReceivePathAssumption DEF RxTake, RxPcs
  <2>2. asked' \in AskedType
    <3>1. CASE asked' = NotAsked  BY <3>1, <1>a
    <3>2. ASSUME NEW tn \in Timeslots,
                 asked' = [NotAsked EXCEPT !.before = Expected(tn), !.after = Expected(tn)]
          PROVE  asked' \in AskedType
      <4>1. Expected(tn) \in Slots  BY <1>a DEF Expected, Slots
      <4>2. QED  BY <1>a, <3>2, <4>1 DEF AskedType
    <3>3. QED  BY <1>1, <3>1, <3>2 DEF RxTake
  <2>3. QED  BY <1>1, <1>a, <2>1, <2>2 DEF RxTake, noiseVars
<1>2. CASE RxReadHandover
  <2>1. rx' \in RxType /\ asked' \in AskedType
    BY <1>2, <1>a, <1>c DEF RxReadHandover, Goes, RxPcs
  <2>2. QED  BY <1>2, <1>a, <2>1 DEF RxReadHandover, noiseVars
<1>3. CASE RxReadType
  <2>1. \A type \in TypeRead : type \in Combination  BY <1>a DEF TypeRead
  <2>2. \A type \in TypeRead : CorrOf(type, rx.fn) \in {"OFF", "TSC", "RACH", "IDLE"}
    BY <1>a, <2>1, CorrOfType
  <2>3. rx' \in RxType /\ asked' \in AskedType  BY <1>3, <1>c, <2>2 DEF RxReadType
  <2>4. QED  BY <1>3, <1>a, <2>3 DEF RxReadType, noiseVars
<1>4. CASE RxReadSettings
  <2> DEFINE sync == IF rx.corr = "TSC" THEN tsc ELSE Unset
  <2>1. sync \in Int  BY <1>a DEF Unset
  <2>2. rx' = [rx EXCEPT !.pc = "correlate", !.sync = sync]  BY <1>4 DEF RxReadSettings
  <2> HIDE DEF sync
  <2>3. rx' \in RxType  BY <1>a, <2>1, <2>2 DEF RxPcs
  <2>4. QED  BY <1>4, <1>a, <2>3 DEF RxReadSettings
<1>5. CASE RxCrash
  <2>1. rx' \in RxType  BY <1>5, <1>a DEF RxCrash, RxPcs
  <2>2. QED  BY <1>5, <1>a, <2>1 DEF RxCrash, noiseVars
<1>6. CASE RxCorrelate
  <2>1. PICK result \in Results :
          /\ IF result = 0 THEN \E energy \in Energies : InsertNoise(energy)
             ELSE UNCHANGED noiseVars
          /\ IF result = 0 \/ (result < 0 /\ rx.corr = "RACH") THEN Drop
             ELSE Goes([rx EXCEPT !.pc = "report", !.result = result])
    BY <1>6 DEF RxCorrelate
  <2>2. result \in {-1, 0, 1}  BY DEF Results, AccessResults, TrafficResults, Peak
  <2>3. rx' \in RxType /\ asked' \in AskedType
    BY <2>1, <2>2, <1>a, <1>b DEF Drop, Goes, RxPcs
  <2>4. /\ noises' \in Noises /\ noiseIt' \in 0 .. NoiseCount
        /\ noiseLev' \in Noises /\ recent' \in Noises
    BY <2>1, <1>a, NoiseTypes DEF noiseVars
  <2>5. QED  BY <1>6, <1>a, <2>3, <2>4 DEF RxCorrelate
<1>7. CASE RxReport
  <2>1. rx' \in RxType /\ asked' \in AskedType  BY <1>7, <1>a, <1>b DEF RxReport, Drop
  <2>2. QED  BY <1>7, <1>a, <2>1 DEF RxReport, noiseVars
<1>8. QED  BY <1>1, <1>2, <1>3, <1>4, <1>5, <1>6, <1>7 DEF RxStep

-----------------------------------------------------------------------------
(* The training sequence.                                                   *)

\* The parts of SequenceInv that speak of the receive thread stay when the
\* control thread moves.
LEMMA CtlSequence ==
  ASSUME PathInv, CtlRead \/ CtlHandle \/ CtlRespond, ControlInv' PROVE SequenceInv'
<1> USE DEF PathInv
<1>a. /\ rx' = rx /\ ctl \in [pc : CtlPcs, cmd : Command \cup {NoCommand}, status : {0, 1}]
      /\ starts \in Nat /\ acked \in Settings
  BY DEF TypeOK, CtlRead, CtlHandle, CtlRespond
<1>b. starts > 0 => on \/ ctl.pc = "turnOn" \/ ctl.pc = "respond"
  BY <1>a DEF ControlInv, InForce, CtlPcs, Settings
<1>1. CASE CtlRead
  <2>1. PICK cmd \in Command : ctl' = [pc |-> "handle", cmd |-> cmd, status |-> 0]
    BY <1>1 DEF CtlRead
  <2>2. UNCHANGED <<starts, tsc, midambles, acked>> /\ ctl.pc = "read"
    BY <1>1 DEF CtlRead, settings, powerVars, sequenceVars
  <2>3. QED
    BY <1>a, <2>1, <2>2 DEF SequenceInv, SetTscAnswered, SequenceInPlace
<1>2. CASE CtlHandle
  <2>a. acked' = acked  BY <1>2 DEF CtlHandle
  <2>1. CASE CtlPowerOff \/ CtlNoiseLevel \/ CtlNothing \/ CtlPowerOn \/ CtlTurnOn
             \/ CtlMaxDelay \/ CtlTune \/ CtlPower \/ CtlHandover \/ CtlSetSlot
    <3>1. UNCHANGED <<tsc, midambles>> /\ starts' \in {starts, starts + 1}
      BY <2>1, <1>a
      DEF CtlPowerOff, CtlNoiseLevel, CtlNothing, CtlPowerOn, CtlTurnOn, CtlMaxDelay, CtlTune,
          CtlPower, CtlHandover, CtlSetSlot, settings, powerVars, sequenceVars
    <3>2. ctl.cmd.name # "SETTSC" /\ ctl'.cmd = ctl.cmd /\ ctl.pc # "generate"
      BY <2>1, <1>a
      DEF CtlPowerOff, CtlNoiseLevel, CtlNothing, CtlPowerOn, CtlTurnOn, CtlMaxDelay, CtlTune,
          CtlPower, CtlHandover, CtlSetSlot, Handling, Respond, Goto, ControlInv
    <3>3. ~SetTscAnswered'  BY <3>2 DEF SetTscAnswered
    <3>4. QED  BY <1>a, <2>a, <3>1, <3>2, <3>3 DEF SequenceInv, SequenceInPlace
  <2>2. CASE CtlSetTsc
    <3>1. ctl.cmd.name = "SETTSC" /\ ctl.pc = "handle" /\ starts' = starts
      BY <2>2 DEF CtlSetTsc, Handling, powerVars
    <3>2. CASE Respond(1) /\ UNCHANGED sequenceVars
      <4>1. ctl' = [ctl EXCEPT !.pc = "respond", !.status = 1]  BY <3>2 DEF Respond
      <4>2. ~SetTscAnswered'  BY <4>1, <1>a DEF SetTscAnswered
      <4>3. QED
        BY <1>a, <2>a, <3>1, <3>2, <4>2 DEF SequenceInv, SequenceInPlace, sequenceVars
    <3>3. CASE ~on /\ tsc' = ctl.cmd.arg
      <4>1. starts = 0 /\ rx.pc = "idle"  BY <1>a, <1>b, <3>1, <3>3 DEF SequenceInv
      <4>2. ctl'.pc = "generate" \/ tsc' \notin Sequences
        BY <2>2, <3>3, <1>a DEF CtlSetTsc, MayChangeSequence, Goto
      <4>3. QED  BY <1>a, <2>a, <3>1, <4>1, <4>2 DEF SequenceInv, SequenceInPlace
    <3>4. QED  BY <2>2, <3>2, <3>3 DEF CtlSetTsc, MayChangeSequence
  <2>3. CASE CtlGenerate
    <3>1. /\ starts' = 0 /\ tsc' = tsc /\ tsc = ctl.cmd.arg
          /\ midambles' = midambles \cup {ctl.cmd.arg}
      BY <2>3 DEF CtlGenerate, ControlInv, powerVars
    <3>2. rx.pc = "idle"  BY <2>3, <1>a DEF CtlGenerate, ControlInv, SequenceInv
    <3>3. QED  BY <1>a, <3>1, <3>2 DEF SequenceInv, SequenceInPlace
  <2>4. QED  BY <1>2, <2>1, <2>2, <2>3 DEF CtlHandle
<1>3. CASE CtlRespond
  <2>1. /\ ctl'.pc = "read" /\ ctl.pc = "respond"
        /\ UNCHANGED <<starts, tsc, midambles>> /\ acked' = Told
    BY <1>3 DEF CtlRespond, Told, settings, powerVars, sequenceVars
  <2>2. acked'.tsc = acked.tsc \/ SetTscAnswered
    <3>1. CASE ctl.cmd.name = "SETTSC"  BY <2>1, <3>1, <1>a DEF Told, SetTscAnswered
    <3>2. CASE ctl.cmd.name # "SETTSC"
      <4>1. AckedAfter(ctl.cmd).tsc = acked.tsc
        BY <3>2, <1>a DEF AckedAfter, Settings
      <4>2. QED  BY <2>1, <4>1 DEF Told
    <3>3. QED  BY <3>1, <3>2
  <2>3. QED
    BY <1>a, <2>1, <2>2 DEF SequenceInv, SetTscAnswered, SequenceInPlace
<1>4. QED  BY <1>1, <1>2, <1>3

\* ... and when the receive thread moves.
LEMMA RxSequence ==
  ASSUME PathInv, RxStep PROVE SequenceInv'
<1> USE DEF PathInv
<1>a. /\ UNCHANGED <<starts, tsc, midambles, ctl, acked>>
  BY RxLeavesSettings DEF settings, powerVars, sequenceVars
<1>b. SetTscAnswered' = SetTscAnswered  BY <1>a DEF SetTscAnswered
<1>c. rx.pc \in RxPcs /\ starts \in Nat /\ (rx.pc # "idle" => starts > 0)
  BY DEF TypeOK, SequenceInv
<1>d. rx \in [pc : RxPcs, tn : Timeslots \cup {BadSlot}, fn : 0 .. 50,
              corr : {"OFF", "TSC", "RACH", "IDLE"}, sync : Int, result : {-1, 0, 1}]
  BY DEF TypeOK
<1>1. SUFFICES /\ rx'.pc # "idle" => starts > 0
               /\ rx'.pc = "correlate" /\ rx'.corr = "TSC" => rx'.sync = tsc
               /\ rx'.pc = "crashed" => acked.tsc = Unset
  BY <1>a, <1>b DEF SequenceInv, SequenceInPlace
<1>2. CASE RxTake  BY <1>2, <1>c DEF RxTake, IdleRx
<1>3. CASE RxReadHandover \/ RxReadType \/ RxCorrelate \/ RxReport
  <2>1. rx.pc # "idle" /\ rx'.pc \in {"idle", "type", "settings", "report"}
    <3>i. IdleRx.pc = "idle"  BY DEF IdleRx
    <3>a. ASSUME NEW corr, Classify(corr) PROVE rx'.pc \in {"idle", "settings"}
      <4>1. rx' = IdleRx \/ rx' = [rx EXCEPT !.pc = "settings", !.corr = corr]
        BY <3>a DEF Classify, Goes, Drop
      <4>2. CASE rx' = IdleRx  BY <4>2, <3>i
      <4>3. CASE rx' = [rx EXCEPT !.pc = "settings", !.corr = corr]
        <5>1. rx'.pc = "settings"  BY <4>3, <1>d
        <5>2. QED  BY <5>1
      <4>4. QED  BY <4>1, <4>2, <4>3
    <3>1. CASE RxReadHandover
      <4>1. Classify("RACH") \/ rx' = [rx EXCEPT !.pc = "type"]
        BY <3>1 DEF RxReadHandover, Goes
      <4>2. rx'.pc \in {"idle", "type", "settings"}  BY <3>a, <4>1, <1>d
      <4>3. QED  BY <3>1, <4>2 DEF RxReadHandover
    <3>2. CASE RxReadType
      <4>1. PICK type : Classify(CorrOf(type, rx.fn))  BY <3>2 DEF RxReadType
      <4>2. QED  BY <3>2, <3>a, <4>1 DEF RxReadType
    <3>3. CASE RxCorrelate
      <4>1. rx' = IdleRx \/ \E result : rx' = [rx EXCEPT !.pc = "report", !.result = result]
        BY <3>3 DEF RxCorrelate, Goes, Drop
      <4>2. rx'.pc \in {"idle", "report"}  BY <4>1, <3>i, <1>d
      <4>3. QED  BY <3>3, <4>2 DEF RxCorrelate
    <3>4. CASE RxReport  BY <3>4, <1>d DEF RxReport, Drop, IdleRx
    <3>5. QED  BY <1>3, <3>1, <3>2, <3>3, <3>4
  <2>2. QED  BY <1>c, <2>1
<1>4. CASE RxReadSettings
  <2>1. /\ rx.pc = "settings" /\ rx'.pc = "correlate" /\ rx'.corr = rx.corr
        /\ rx.corr = "TSC" => rx'.sync = tsc
    BY <1>4, <1>d DEF RxReadSettings
  <2>2. QED  BY <1>c, <2>1
<1>5. CASE RxCrash
  <2>1. rx.pc = "correlate" /\ rx'.pc = "crashed" /\ tsc \in Sequences /\ tsc \notin midambles
    BY <1>5, <1>d DEF RxCrash, MissingSequence, SequenceInv
  <2>2. starts > 0 /\ ctl.pc # "generate"  BY <1>c, <2>1 DEF ControlInv
  <2>3. acked.tsc = Unset  BY <2>1, <2>2 DEF SequenceInv
  <2>4. QED  BY <2>1, <2>2, <2>3
<1>6. QED  BY <1>2, <1>3, <1>4, <1>5 DEF RxStep

-----------------------------------------------------------------------------
(* What the core asked for.                                                 *)

\* A command changes the flag or the combination of a slot, not both.
LEMMA OneOfTwo == ASSUME CtlHandle PROVE handover' = handover \/ chan' = chan
BY DEF CtlHandle, CtlPowerOff, CtlNoiseLevel, CtlNothing, CtlPowerOn, CtlTurnOn, CtlMaxDelay,
       CtlTune, CtlPower, CtlSetTsc, CtlGenerate, CtlHandover, CtlSetSlot, settings, slotVars

LEMMA ChangeType ==
  ASSUME TypeOK, CtlHandle, chan' \in [Timeslots -> Combination],
         handover' \in [Timeslots -> BOOLEAN]
  PROVE  asked' \in AskedType
<1>1. asked \in AskedType /\ NotAsked \in AskedType /\ rx' = rx
  BY NotAskedType DEF TypeOK, CtlHandle
<1>2. CASE asked' = asked  BY <1>1, <1>2
<1>3. CASE asked' = [NotAsked EXCEPT !.changes = 2]  BY <1>1, <1>3 DEF AskedType
<1>4. CASE Classifying /\ asked' = [asked EXCEPT !.after = Expected(rx.tn)', !.changes = 1]
  <2> DEFINE slot == Expected(rx.tn)'
  <2>1. slot \in Slots  BY <1>1, <1>4 DEF Classifying, Expected, Slots
  <2>2. asked' = [asked EXCEPT !.after = slot, !.changes = 1]  BY <1>4
  <2> HIDE DEF slot
  <2>3. asked' = [before |-> asked.before, after |-> slot, changes |-> 1]
    BY <1>1, <2>2 DEF AskedType
  <2>4. asked.before \in Slots  BY <1>1 DEF AskedType
  <2>5. QED  BY <2>1, <2>3, <2>4 DEF AskedType
<1>5. QED  BY <1>2, <1>3, <1>4 DEF CtlHandle, NoteChange

LEMMA CtlAsked ==
  ASSUME PathInv, CtlRead \/ CtlHandle \/ CtlRespond PROVE AskedInv'
<1> USE DEF PathInv
<1>a. rx' = rx  BY DEF CtlRead, CtlHandle, CtlRespond
<1>b. asked \in AskedType /\ NotAsked \in AskedType  BY NotAskedType DEF TypeOK
<1>1. CASE UNCHANGED <<chan, handover, asked>>
  BY <1>1, <1>a
  DEF AskedInv, SlotKnown, Classifying, Expected, CorrelatedAsAsked, AsAsked
<1>2. CASE CtlHandle /\ ~Classifying
  <2>1. asked' = asked /\ ~Classifying'  BY <1>2, <1>a DEF CtlHandle, NoteChange, Classifying
  <2>2. CorrelatedAsAsked'  BY <1>a, <2>1 DEF AskedInv, CorrelatedAsAsked, AsAsked
  <2>3. QED  BY <2>1, <2>2 DEF AskedInv, SlotKnown
<1>3. CASE CtlHandle /\ Classifying
  <2>1. CorrelatedAsAsked'  BY <1>a, <1>3 DEF Classifying, CorrelatedAsAsked
  <2>2. CASE asked' = asked /\ Expected(rx.tn)' = Expected(rx.tn)
    BY <1>a, <1>3, <2>1, <2>2 DEF AskedInv, SlotKnown, Classifying
  <2>3. CASE asked' = [asked EXCEPT !.after = Expected(rx.tn)', !.changes = 1]
             /\ asked.changes = 0
    <3>1. asked.before = Expected(rx.tn) /\ asked.after = asked.before
      BY <1>3, <2>3 DEF AskedInv, SlotKnown
    <3>2. /\ asked'.before = asked.before /\ asked'.after = Expected(rx.tn)'
          /\ asked'.changes = 1
      BY <1>b, <2>3 DEF AskedType
    <3>3. \/ Expected(rx.tn)'.heard = Expected(rx.tn).heard
          \/ Expected(rx.tn)'.type = Expected(rx.tn).type
      BY <1>3, <1>a, OneOfTwo DEF Expected
    <3>4. rx.pc = "type" => ~asked.before.heard
      BY <1>3, <2>3, <3>1 DEF AskedInv, SlotKnown
    <3>5. SlotKnown'  BY <1>a, <3>1, <3>2, <3>3, <3>4 DEF SlotKnown
    <3>6. QED  BY <2>1, <3>5 DEF AskedInv
  <2>4. CASE asked' = [NotAsked EXCEPT !.changes = 2]
    <3>1. asked'.changes = 2  BY <1>b, <2>4 DEF AskedType
    <3>2. QED  BY <2>1, <3>1 DEF AskedInv, SlotKnown
  <2>5. QED  BY <1>3, <2>2, <2>3, <2>4 DEF CtlHandle, NoteChange
<1>4. QED
  BY <1>1, <1>2, <1>3 DEF CtlRead, CtlRespond, settings, slotVars

LEMMA RxAsked ==
  ASSUME PathInv, RxStep PROVE AskedInv'
<1> USE DEF PathInv
<1>a. UNCHANGED <<chan, handover>>  BY RxLeavesSettings DEF settings, slotVars
<1>c. /\ rx \in [pc : RxPcs, tn : Timeslots \cup {BadSlot}, fn : 0 .. 50,
                 corr : {"OFF", "TSC", "RACH", "IDLE"}, sync : Int, result : {-1, 0, 1}]
      /\ chan \in [Timeslots -> Combination] /\ handover \in [Timeslots -> BOOLEAN]
      /\ BadSlot \notin Timeslots /\ NotAsked \in AskedType
  BY ReceivePathAssumption, NotAskedType DEF TypeOK
<1>i. ASSUME rx' = IdleRx PROVE AskedInv'
  <2>1. rx'.pc = "idle"  BY <1>i DEF IdleRx
  <2>2. QED  BY <2>1 DEF AskedInv, SlotKnown, Classifying, CorrelatedAsAsked
<1>s. ASSUME NEW corr, rx' = [rx EXCEPT !.pc = "settings", !.corr = corr],
             UNCHANGED asked,
             rx.tn \in Timeslots /\ asked.changes <= 1 =>
               \E slot \in {asked.before, asked.after} :
                 IF slot.heard THEN corr = "RACH"
                 ELSE /\ slot.type \notin {"NONE", "FILL"}
                      /\ corr = "RACH" => slot.type \in {"IV", "V", "VI"}
                      /\ corr = "TSC" => slot.type \notin {"IV", "VI"}
      PROVE  AskedInv'
  <2>1. rx'.pc = "settings" /\ rx'.corr = corr /\ rx'.tn = rx.tn  BY <1>s, <1>c
  <2>2. SlotKnown'  BY <2>1 DEF SlotKnown, Classifying
  <2>3. CorrelatedAsAsked'  BY <1>s, <2>1 DEF CorrelatedAsAsked, AsAsked
  <2>4. QED  BY <2>2, <2>3 DEF AskedInv
<1>1. CASE RxTake
  <2>1. PICK tn \in Timeslots \cup {BadSlot}, fn \in BurstFrames :
          /\ rx' = [IdleRx EXCEPT !.pc = "handover", !.tn = tn, !.fn = fn]
          /\ asked' = IF tn \in Timeslots
                      THEN [NotAsked EXCEPT !.before = Expected(tn), !.after = Expected(tn)]
                      ELSE NotAsked
    BY <1>1 DEF RxTake
  <2>2. rx'.pc = "handover" /\ rx'.tn = tn  BY <2>1 DEF IdleRx
  <2>3. CorrelatedAsAsked'  BY <2>2 DEF CorrelatedAsAsked
  <2>4. tn \in Timeslots =>
          asked'.before = Expected(tn) /\ asked'.after = Expected(tn) /\ asked'.changes = 0
    BY <2>1 DEF NotAsked
  <2>5. SlotKnown'  BY <1>a, <2>2, <2>4 DEF SlotKnown, Classifying, Expected
  <2>6. QED  BY <2>3, <2>5 DEF AskedInv
<1>2. CASE RxReadHandover
  <2>1. rx.pc = "handover" /\ \/ TRUE \in HandoverRead /\ Classify("RACH")
                              \/ FALSE \in HandoverRead /\ Goes([rx EXCEPT !.pc = "type"])
    <3>1. PICK heard \in HandoverRead : IF heard THEN Classify("RACH")
                                        ELSE Goes([rx EXCEPT !.pc = "type"])
      BY <1>2 DEF RxReadHandover
    <3>2. heard \in BOOLEAN  BY <1>c DEF HandoverRead, HandoverHeard
    <3>3. QED  BY <1>2, <3>1, <3>2 DEF RxReadHandover
  <2>2. rx.tn \in Timeslots => HandoverRead = {handover[rx.tn]} /\ Classifying
    BY <1>c, <2>1 DEF HandoverRead, HandoverHeard, Classifying
  <2>3. rx.tn \in Timeslots /\ asked.changes <= 1 => asked.after.heard = handover[rx.tn]
    BY <2>2 DEF AskedInv, SlotKnown, Expected
  <2>4. CASE TRUE \in HandoverRead /\ Classify("RACH")
    <3>1. rx' = [rx EXCEPT !.pc = "settings", !.corr = "RACH"] /\ asked' = asked
      BY <2>4 DEF Classify, Goes
    <3>2. rx.tn \in Timeslots /\ asked.changes <= 1 => asked.after.heard
      BY <2>2, <2>3, <2>4
    <3>3. QED  BY <3>1, <3>2, <1>s
  <2>5. CASE FALSE \in HandoverRead /\ Goes([rx EXCEPT !.pc = "type"])
    <3>1. rx'.pc = "type" /\ rx'.tn = rx.tn /\ asked' = asked  BY <2>5, <1>c DEF Goes
    <3>2. rx.tn \in Timeslots /\ asked.changes <= 1 => ~asked.after.heard
      BY <2>2, <2>3, <2>5
    <3>3. SlotKnown'
      BY <1>a, <2>2, <3>1, <3>2 DEF AskedInv, SlotKnown, Classifying, Expected
    <3>4. CorrelatedAsAsked'  BY <3>1 DEF CorrelatedAsAsked
    <3>5. QED  BY <3>3, <3>4 DEF AskedInv
  <2>6. QED  BY <2>1, <2>4, <2>5
<1>3. CASE RxReadType
  <2>1. PICK type \in TypeRead : Classify(CorrOf(type, rx.fn))  BY <1>3 DEF RxReadType
  <2> DEFINE corr == CorrOf(type, rx.fn)
  <2>2. rx.tn \in Timeslots => type = chan[rx.tn]  BY <1>c, <2>1 DEF TypeRead
  <2>3. CASE corr \in {"OFF", "IDLE"}
    <3>1. rx' = IdleRx  BY <2>1, <2>3 DEF Classify, Drop
    <3>2. QED  BY <3>1, <1>i
  <2>4. CASE corr \notin {"OFF", "IDLE"}
    <3>1. rx' = [rx EXCEPT !.pc = "settings", !.corr = corr] /\ asked' = asked
      BY <2>1, <2>4 DEF Classify, Goes
    <3>2. /\ type \notin {"NONE", "FILL"}
          /\ corr = "RACH" => type \in {"IV", "V", "VI"}
          /\ corr = "TSC" => type \notin {"IV", "VI"}
      BY <2>4 DEF CorrOf
    <3>3. ASSUME rx.tn \in Timeslots, asked.changes <= 1
          PROVE  \E slot \in {asked.before, asked.after} : ~slot.heard /\ slot.type = type
      <4>1. /\ asked.after.type = type
            /\ asked.before.heard = asked.after.heard \/ asked.before.type = asked.after.type
            /\ ~(asked.before.heard /\ asked.after.heard)
        BY <1>3, <2>2, <3>3 DEF RxReadType, AskedInv, SlotKnown, Classifying, Expected
      <4>2. asked.before.heard \in BOOLEAN /\ asked.after.heard \in BOOLEAN
        BY DEF TypeOK, AskedType, Slots
      <4>3. CASE ~asked.after.heard  BY <4>1, <4>3
      <4>4. CASE asked.after.heard  BY <4>1, <4>2, <4>4
      <4>5. QED  BY <4>3, <4>4
    <3> HIDE DEF corr
    <3>4. QED  BY <3>1, <3>2, <3>3, <1>s
  <2>5. QED  BY <2>3, <2>4
<1>4. CASE RxReadSettings \/ RxCrash \/ RxCorrelate \/ RxReport
  <2>1. \/ rx' = IdleRx
        \/ /\ asked' = asked /\ rx.pc \in {"settings", "correlate"}
           /\ rx'.pc \in {"correlate", "crashed", "report"}
           /\ rx'.tn = rx.tn /\ rx'.corr = rx.corr
    <3>1. CASE RxReport  BY <3>1 DEF RxReport, Drop
    <3>2. CASE RxCorrelate
      <4>1. \/ rx' = IdleRx
            \/ asked' = asked
               /\ \E result : rx' = [rx EXCEPT !.pc = "report", !.result = result]
        BY <3>2 DEF RxCorrelate, Goes, Drop
      <4>2. QED  BY <3>2, <4>1, <1>c DEF RxCorrelate
    <3>3. CASE RxReadSettings \/ RxCrash  BY <3>3, <1>c DEF RxReadSettings, RxCrash
    <3>4. QED  BY <1>4, <3>1, <3>2, <3>3
  <2>2. CASE rx' = IdleRx  BY <2>2, <1>i
  <2>3. CASE rx' # IdleRx
    <3>1. CorrelatedAsAsked'
      BY <2>1, <2>3 DEF AskedInv, CorrelatedAsAsked, AsAsked
    <3>2. SlotKnown'  BY <2>1, <2>3 DEF SlotKnown, Classifying
    <3>3. QED  BY <3>1, <3>2 DEF AskedInv
  <2>4. QED  BY <2>2, <2>3
<1>5. QED  BY <1>1, <1>2, <1>3, <1>4 DEF RxStep

-----------------------------------------------------------------------------
(* The theorems.                                                            *)

LEMMA InitPath == Init => PathInv
<1> SUFFICES ASSUME Init PROVE PathInv  OBVIOUS
<1>1. TypeOK  BY InitTypes
<1>2. ctl.pc = "read" /\ rx.pc = "idle" /\ starts = 0
  BY DEF Init, IdleRx
<1>3. /\ chan = acked.chan /\ handover = acked.handover /\ maxDelay = acked.maxDelay
      /\ acked.tsc = Unset /\ acked.started = FALSE /\ on = FALSE
  BY DEF Init
<1>4. ControlInv  BY <1>2, <1>3 DEF ControlInv, InForce
<1>5. SequenceInv  BY <1>2, <1>3 DEF SequenceInv, SetTscAnswered, SequenceInPlace
<1>6. AskedInv  BY <1>2 DEF AskedInv, SlotKnown, Classifying, CorrelatedAsAsked
<1>7. QED  BY <1>1, <1>4, <1>5, <1>6 DEF PathInv

LEMMA StepPath == PathInv /\ [Next]_vars => PathInv'
<1> SUFFICES ASSUME PathInv, [Next]_vars PROVE PathInv'  OBVIOUS
<1> USE DEF PathInv
<1>1. CASE CtlRead
  <2>1. TypeOK'
    <3>1. ctl' \in [pc : CtlPcs, cmd : Command \cup {NoCommand}, status : {0, 1}]
      BY <1>1 DEF CtlRead, CtlPcs
    <3>2. QED
      BY <1>1, <3>1
      DEF TypeOK, CtlRead, settings, noiseVars, radioVars, powerVars, sequenceVars, slotVars
  <2>2. QED  BY <1>1, <2>1, ReadControl, CtlSequence, CtlAsked
<1>2. CASE CtlHandle
  <2>1. TypeOK'
    <3>1. ctl.pc = "generate" => ctl.cmd.arg \in Sequences  BY DEF ControlInv
    <3>2. UNCHANGED <<noiseVars, rx, acked>>  BY <1>2 DEF CtlHandle
    <3>3. QED  BY <1>2, <3>1, <3>2, CtlStep, SettingsStep, ChangeType DEF TypeOK, noiseVars
  <2>2. acked' = acked  BY <1>2 DEF CtlHandle
  <2>3. QED  BY <1>2, <2>1, <2>2, HandleControl, CtlSequence, CtlAsked
<1>3. CASE CtlRespond
  <2>1. TypeOK'
    <3>1. ctl' \in [pc : CtlPcs, cmd : Command \cup {NoCommand}, status : {0, 1}]
      BY <1>3 DEF CtlRespond, CtlPcs
    <3>2. acked' \in Settings  BY <1>3, AckedType
    <3>3. QED
      BY <1>3, <3>1, <3>2
      DEF TypeOK, CtlRespond, settings, noiseVars, radioVars, powerVars, sequenceVars, slotVars
  <2>2. QED  BY <1>3, <2>1, RespondControl, CtlSequence, CtlAsked
<1>4. CASE RxStep
  <2>1. UNCHANGED <<settings, ctl, acked>>  BY <1>4, RxLeavesSettings
  <2>2. TypeOK'
    BY <1>4, <2>1, RxTypes
    DEF TypeOK, settings, radioVars, powerVars, sequenceVars, slotVars
  <2>3. ControlInv'
    BY <2>1
    DEF ControlInv, InForce, SlotsInForce, Told, AckedAfter, settings, powerVars,
        sequenceVars, slotVars
  <2>4. QED  BY <1>4, <2>2, <2>3, RxSequence, RxAsked
<1>5. CASE UNCHANGED vars
  <2>1. UNCHANGED <<settings, noiseVars, ctl, rx, acked, asked>>  BY <1>5 DEF vars
  <2> USE <2>1 DEF settings, noiseVars, radioVars, powerVars, sequenceVars, slotVars
  <2>2. TypeOK'  BY DEF TypeOK
  <2>3. ControlInv'  BY DEF ControlInv, InForce, SlotsInForce, Told, AckedAfter
  <2>4. SequenceInv'  BY DEF SequenceInv, SetTscAnswered, SequenceInPlace
  <2>5. AskedInv'
    BY DEF AskedInv, SlotKnown, Classifying, Expected, CorrelatedAsAsked, AsAsked
  <2>6. QED  BY <2>2, <2>3, <2>4, <2>5
<1>6. QED  BY <1>1, <1>2, <1>3, <1>4, <1>5 DEF Next, RxStep

\* The conjunction is inductive.
THEOREM PathInvariance == Spec => []PathInv
BY InitPath, StepPath, PTL DEF Spec

\* Every variable keeps its type (TypeOK): the noise iterator stays in the
\* ring or at its end, whatever bursts and commands come.
THEOREM TypeCorrect == Spec => []TypeOK
BY PathInvariance, PTL DEF PathInv

\* Settings and answers agree between commands (AckedInForce), for every
\* sequence of commands; the threads are started once.
THEOREM AnswersAreTrue == Spec => []AckedInForce
<1>1. PathInv => AckedInForce  BY DEF PathInv, ControlInv, AckedInForce
<1>2. QED  BY <1>1, PathInvariance, PTL

\* No burst is correlated with a sequence that generateMidamble has deleted
\* or never made, once SETTSC was answered (SequenceInPlace).
THEOREM SequenceStays == Spec => []SequenceInPlace
<1>1. PathInv => SequenceInPlace  BY DEF PathInv, SequenceInv
<1>2. QED  BY <1>1, PathInvariance, PTL

\* A burst is correlated as the core asked before or after a change of its
\* slot (CorrelatedAsAsked), although expectedCorrType reads two arrays
\* unlocked while the control thread writes them.
THEOREM BurstsAreTakenAsAsked == Spec => []CorrelatedAsAsked
<1>1. PathInv => CorrelatedAsAsked  BY DEF PathInv, AskedInv
<1>2. QED  BY <1>1, PathInvariance, PTL

-----------------------------------------------------------------------------
(* The noise ring.                                                          *)

LEMMA RemainderIs == ASSUME NEW a \in Int, NEW q \in Int, NEW n \in Nat \ {0},
                            NEW r \in 0 .. n - 1, a = n * q + r
                     PROVE  a % n = r
  BY Z3

\* One lap at most is behind an index.
LEMMA Around == ASSUME NEW n \in Nat \ {0}, NEW a \in 0 .. 2 * n - 1
                PROVE  a % n = IF a < n THEN a ELSE a - n
<1>1. CASE a < n
  <2>1. a = n * 0 + a  BY Z3
  <2>2. QED  BY <1>1, <2>1, RemainderIs
<1>2. CASE a >= n
  <2>1. a = n * 1 + (a - n)  BY Z3
  <2>2. a - n \in 0 .. n - 1  BY <1>2
  <2>3. QED  BY <1>2, <2>1, <2>2, RemainderIs
<1>3. QED  BY <1>1, <1>2

LEMMA InsertKeepsRing ==
  ASSUME TypeOK, RingIsRecent, NEW energy \in Energies, InsertNoise(energy)
  PROVE  RingIsRecent'
<1> DEFINE n == NoiseCount
<1>a. n \in Nat \ {0}  BY ReceivePathAssumption
<1>b. noiseIt \in 0 .. n /\ NoiseCell \in 0 .. n - 1  BY <1>a DEF TypeOK, NoiseCell
<1>c. DOMAIN noises = 0 .. n - 1 /\ DOMAIN recent = 0 .. n - 1  BY DEF TypeOK, Noises
<1>d. /\ noises' = [noises EXCEPT ![NoiseCell] = energy] /\ noiseIt' = NoiseCell + 1
      /\ \A k \in 0 .. n - 1 : recent'[k] = IF k = n - 1 THEN energy ELSE recent[k + 1]
  BY <1>c DEF InsertNoise, NextNoise
<1>1. SUFFICES ASSUME NEW k \in 0 .. n - 1
               PROVE  noises'[(NoiseCell + 1 + k) % n] = recent'[k]
  BY <1>d DEF RingIsRecent
<1> HIDE DEF n
<1>2. (NoiseCell + 1 + k) % n
        = IF NoiseCell + 1 + k < n THEN NoiseCell + 1 + k ELSE (NoiseCell + 1 + k) - n
  <2> DEFINE a == NoiseCell + 1 + k
  <2>1. a \in 0 .. 2 * n - 1  BY <1>a, <1>b
  <2> HIDE DEF a
  <2>2. a % n = IF a < n THEN a ELSE a - n  BY <1>a, <2>1, Around
  <2>3. QED  BY <2>2 DEF a
<1>3. CASE k = n - 1
  <2>1. (NoiseCell + 1 + k) % n = NoiseCell  BY <1>2, <1>3, <1>a, <1>b
  <2>2. recent'[k] = energy  BY <1>3, <1>d
  <2>3. QED  BY <2>1, <2>2, <1>b, <1>c, <1>d
<1>4. CASE k < n - 1
  <2>1. recent'[k] = recent[k + 1] /\ k + 1 \in 0 .. n - 1  BY <1>4, <1>a, <1>d
  <2>2. (noiseIt + (k + 1)) % n = (NoiseCell + 1 + k) % n
    <3>1. CASE noiseIt = n
      <4>1. NoiseCell = 0  BY <3>1 DEF NoiseCell, n
      <4> DEFINE a == noiseIt + (k + 1)
      <4>2. a \in 0 .. 2 * n - 1 /\ ~(a < n) /\ a - n = k + 1  BY <3>1, <1>4, <1>a
      <4> HIDE DEF a
      <4>3. a % n = k + 1  BY <4>2, <1>a, Around
      <4> USE DEF a
      <4>4. QED  BY <4>1, <4>3, <1>2, <1>4, <1>a
    <3>2. CASE noiseIt # n
      <4>1. NoiseCell = noiseIt  BY <3>2 DEF NoiseCell, n
      <4>2. noiseIt + (k + 1) = NoiseCell + 1 + k  BY <4>1, <1>a, <1>b
      <4>3. QED  BY <4>2
    <3>3. QED  BY <3>1, <3>2
  <2>3. noises[(noiseIt + (k + 1)) % n] = recent[k + 1]
    BY <2>1 DEF RingIsRecent, n
  <2>4. (NoiseCell + 1 + k) % n # NoiseCell  BY <1>2, <1>4, <1>a, <1>b
  <2>5. (NoiseCell + 1 + k) % n \in 0 .. n - 1  BY <1>2, <1>4, <1>a, <1>b
  <2>6. noises'[(NoiseCell + 1 + k) % n] = noises[(NoiseCell + 1 + k) % n]
    BY <2>4, <2>5, <1>c, <1>d DEF n
  <2>7. QED  BY <2>1, <2>2, <2>3, <2>6
<1>5. QED  BY <1>3, <1>4, <1>a

\* The noise level is the average of the last noises, for a ring of any
\* length (RingIsRecent): each insertion replaces the oldest.
THEOREM NoisesAreRecent == Spec => []RingIsRecent
<1>1. Init => RingIsRecent
  <2> SUFFICES ASSUME Init, NEW k \in 0 .. NoiseCount - 1
               PROVE  noises[(noiseIt + k) % NoiseCount] = recent[k]
    BY DEF RingIsRecent
  <2>1. noiseIt = 0 /\ noises = Silence /\ recent = Silence  BY DEF Init
  <2>2. (0 + k) % NoiseCount = k
    <3>1. NoiseCount \in Nat \ {0}  BY ReceivePathAssumption
    <3>2. k \in 0 .. 2 * NoiseCount - 1 /\ k < NoiseCount /\ 0 + k = k  BY <3>1
    <3>3. QED  BY <3>1, <3>2, Around
  <2>3. QED  BY <2>1, <2>2
<1>2. TypeOK /\ RingIsRecent /\ [Next]_vars => RingIsRecent'
  <2> SUFFICES ASSUME TypeOK, RingIsRecent, [Next]_vars PROVE RingIsRecent'  OBVIOUS
  <2>1. CASE UNCHANGED <<noises, noiseIt, recent>>  BY <2>1 DEF RingIsRecent
  <2>2. CASE RxCorrelate
    <3>1. (\E energy \in Energies : InsertNoise(energy)) \/ UNCHANGED noiseVars
      BY <2>2 DEF RxCorrelate
    <3>2. QED  BY <2>1, <3>1, InsertKeepsRing DEF noiseVars
  <2>3. QED
    BY <2>1, <2>2
    DEF Next, vars, noiseVars, CtlRead, CtlHandle, CtlRespond, RxTake, RxReadHandover,
        RxReadType, RxReadSettings, RxCrash, RxReport
<1>3. QED  BY <1>1, <1>2, TypeCorrect, PTL DEF Spec
=============================================================================
