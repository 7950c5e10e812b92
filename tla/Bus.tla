--------------------------------- MODULE Bus --------------------------------
(***************************************************************************)
(* The USB bus: control transfers and polls, one after the other, for the  *)
(* program has a single thread and waits for the end of each (main.c,      *)
(* HID.c, transfer.c).                                                     *)
(***************************************************************************)
EXTENDS Transfer, ControlTransfer

BusInit == TransferInit /\ ControlInit

busVars == <<transferVars, controlVars>>

Control == at = "main" /\ ControlNext /\ UNCHANGED transferVars
Polling == stage = "idle" /\ TransferNext /\ UNCHANGED controlVars

BusNext == Control \/ Polling

(* The program runs on: it finishes what it has begun and polls again.     *)
BusProgram ==
  \/ SendPacket /\ UNCHANGED transferVars
  \/ stage = "idle" /\ (Poll \/ Dispatch) /\ UNCHANGED controlVars

BusSpec == BusInit /\ [][BusNext]_busVars /\ WF_busVars(BusProgram)
-----------------------------------------------------------------------------
BusTypeOK == TransferTypeOK /\ ControlTypeOK

(* Every poll and every request comes to an end, however the device        *)
(* answers: NAKs and missing answers are counted apart, for each packet    *)
(* anew, and both counts have a limit (transfer.c:147-148, 167, 176).      *)
TransfersEnd == []<>(at = "main") /\ []<>(stage = "idle")
=============================================================================
