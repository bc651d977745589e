---------------------------- MODULE RadioTransmit ----------------------------
(***************************************************************************)
(* The transmit loop's way into the radio, put together from RadioSend (the *)
(* send buffer of the radio interface) and UhdTransmit (the device under    *)
(* it): per timeslot isUnderrun, then driveTransmitRadio, which copies the  *)
(* burst and calls pushBuffer, which calls writeSamples once it has a       *)
(* chunk.  The receive thread and the device's event thread interfere.      *)
(* A definition marked "Fault" is what a plausible mistake would make of    *)
(* the definition after it; no specification uses it.                       *)
(***************************************************************************)
EXTENDS UhdTransmit, RadioKind

VARIABLES slot, cursor, writePos, pushing   \* see RadioSend

Air == INSTANCE RadioSend

sendVars == <<type, sps, slot, cursor, writePos, pushing>>
radioVars == <<vars, sendVars>>

RadioInit == Init /\ Air!Init

\* driveTransmitRadio, after the underrun flag was asked and cleared.
PushBurst == tx = "push" /\ Air!AppendBurst /\ UNCHANGED vars

\* pushBuffer has too few samples for the device.
PushTooLittle == pushing /\ ~Air!Ready /\ PushNothing /\ Air!PushBuffer

BeginBlock == pushing /\ Air!Ready /\ WriteSamples /\ UNCHANGED sendVars

\* Fault: a dropped block leaves the timestamp where it was.
DropBlockStalls ==
  /\ WriteDrop
  /\ cursor' = cursor - Air!Sendable /\ pushing' = FALSE
  /\ UNCHANGED <<type, sps, slot, writePos>>

\* writeSamples returns the full length for a block that it drops, so
\* pushBuffer goes on as it does after a block that was sent.
DropBlock == WriteDrop /\ Air!PushBuffer

SendBlock == Send /\ Air!PushBuffer

Ask == (AskUnderrun \/ ClearUnderrun) /\ UNCHANGED sendVars

Align == (WriteAligned \/ WriteStop \/ WriteStart \/ SetAligned) /\ UNCHANGED sendVars

TransmitThread ==
  Ask \/ PushBurst \/ PushTooLittle \/ BeginBlock \/ Align \/ DropBlock \/ SendBlock

OtherThreads == (RxLoad \/ RxStore \/ ErrorEvent) /\ UNCHANGED sendVars

RadioNext == TransmitThread \/ OtherThreads

RadioSpec == RadioInit /\ [][RadioNext]_radioVars

\* The transmit loop is scheduled; nothing is assumed of the other threads.
RadioFairSpec == RadioSpec /\ WF_radioVars(TransmitThread)

-----------------------------------------------------------------------------
\* Types of both parts; a block is only pushed by the thread that pushes.
RadioTypeOK ==
  /\ TypeOK /\ Air!TypeOK
  /\ pushing => tx \in {"push", "check", "align", "send"}

\* The samples that wait fit in the send buffer, and a block in the tables of
\* the resampler, also when blocks are dropped (pushBuffer, writeSamples).
SendFits == Air!SendFits

\* Bursts begin on the air where their timeslots begin, also after the
\* device has dropped blocks to resynchronize (driveTransmitRadio,
\* pushBuffer, writeSamples).
SendFollowsSlots == Air!SendFollowsSlots

\* The transmitter comes back on the air, however many errors arrive and
\* whatever the send buffer holds back (writeSamples, pushBuffer).
Resumes == ~onAir ~> onAir
=============================================================================
