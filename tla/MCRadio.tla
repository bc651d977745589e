------------------------------ MODULE MCRadio ------------------------------
(***************************************************************************)
(* Both halves of the radio interface.  They share the interface that was   *)
(* made and nothing that changes, so the initial state chooses the half     *)
(* that is looked at and the other one rests.  The constants are in         *)
(* radio.cfg.                                                               *)
(***************************************************************************)
EXTENDS RadioTransmit, RadioReceive

VARIABLE direction

halves == <<direction, radioVars, receiveVars>>

HalvesInit ==
  /\ direction \in {"receive", "transmit"}
  /\ RadioInit /\ ReceiveInit
  /\ direction = "transmit" => clock = Time(0, 0)

HalvesNext ==
  /\ UNCHANGED direction
  /\ IF direction = "receive" THEN ReceiveNext /\ UNCHANGED radioVars
     ELSE RadioNext /\ UNCHANGED receiveVars

\* The fairness of either half, where it runs.
HalvesFairness ==
  /\ WF_receiveVars(direction = "receive" /\ ReceiveNext)
  /\ SF_receiveVars(direction = "receive" /\ RxPull)
  /\ WF_radioVars(direction = "transmit" /\ TransmitThread)

HalvesSpec == HalvesInit /\ [][HalvesNext]_halves /\ HalvesFairness

-----------------------------------------------------------------------------
\* ClockGoesOn, of the half that runs: neither a full FIFO nor a full buffer
\* ends the reception (driveReceiveRadio, pullBuffer, pullRadioVector).
ReceptionGoesOn == direction = "receive" => ClockGoesOn

\* Resumes, of the half that runs: the transmitter comes back on the air,
\* however many errors arrive (writeSamples, pushBuffer).
TransmissionResumes == direction = "transmit" => Resumes
=============================================================================
