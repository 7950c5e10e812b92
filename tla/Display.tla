------------------------------- MODULE Display ------------------------------
(***************************************************************************)
(* The VGA controller and what its frame clock drives beside the tanks:    *)
(* the health bars, the triggers and the animation of the tanks            *)
(* (finalproject.sv).  A step is an edge of the 50 MHz clock, half a       *)
(* pixel, a change of the keys, or KEY0.  Bullets, shields and steering    *)
(* keys are inputs.                                                        *)
(***************************************************************************)
EXTENDS VgaController, Health, Animators, Gunner

VARIABLES
  since,   \* history: pixels since the last frame edge; -1 before the
           \* first edge at a sync pulse, -2 before any, since KEY0
  cost     \* history: the hits that the present contact of a tank, or the
           \* last one, has been charged with

displayVars == <<vgaVars, healthVars, animatorVars, gunnerVars, since, cost>>

DisplayInit ==
  /\ VgaInit /\ HealthInit /\ AnimatorInit /\ GunnerInit
  /\ since = -2
  /\ cost = [t \in Tanks |-> 0]

PressKEY0 ==
  /\ PressReset
  /\ since' = -2
  /\ UNCHANGED <<healthVars, animatorVars, gunnerVars, cost>>

ReleaseKEY0 ==
  /\ ReleaseReset
  /\ UNCHANGED <<healthVars, animatorVars, gunnerVars, since, cost>>

(* A contact begins when the signal is seen up after it was seen down.     *)
ContactBegins(t) == signal_in_prev'[t] /\ ~signal_in_prev[t]

CountHits ==
  cost' = [t \in Tanks |-> (IF ContactBegins(t) THEN 0 ELSE cost[t])
                            + (IF health'[t] < health[t] THEN 1 ELSE 0)]

(* All modules see the reset keys of the same moment.                      *)
FrameClock ==
  /\ \E shield_on, collision, steering \in [Tanks -> BOOLEAN] :
       /\ HealthClock(resetting, shield_on, collision)
       /\ AnimatorFrame(resetting, steering)
  /\ GunnerFrame
  /\ CountHits

Draw ==
  /\ Pixel
  /\ IF FrameEdge
       THEN FrameClock /\ since' = IF since = -2 THEN -1 ELSE 0
       ELSE /\ UNCHANGED <<healthVars, animatorVars, gunnerVars, cost>>
            /\ since' = IF since < 0 THEN since ELSE since + 1

Rest ==
  /\ HalfPixel
  /\ UNCHANGED <<healthVars, animatorVars, gunnerVars, since, cost>>

(* The players press and release keys at any moment.                       *)
KeyChange ==
  /\ FireKeyChange \/ ResetKeyChange
  /\ UNCHANGED <<vgaVars, healthVars, animatorVars, since, cost>>

DisplayNext == PressKEY0 \/ ReleaseKEY0 \/ Draw \/ Rest \/ KeyChange

(* The clock runs on.                                                      *)
DisplaySpec ==
  /\ DisplayInit
  /\ [][DisplayNext]_displayVars
  /\ WF_displayVars(Draw) /\ WF_displayVars(Rest)

-----------------------------------------------------------------------------
DisplayTypeOK ==
  /\ VgaTypeOK
  /\ HealthTypeOK
  /\ GunnerTypeOK
  /\ counter \in 0..1 /\ slow_clock \in BOOLEAN
  /\ picture \in [Tanks -> 1..2]

(* One contact costs one hit, however many frames it lasts, and also when  *)
(* the bars are refilled meanwhile (health.sv:14-16, 30-32).               *)
OneHitPerContact == \A t \in Tanks : cost[t] <= 1

(* The game moves while nothing is drawn, so that no picture shows half of *)
(* a move; only the first frame after KEY0, which clears the sync signal   *)
(* together with the counters, comes at the top of the picture.            *)
GameMovesInBlanking == [][FrameEdge /\ since # -2 => ~display']_displayVars

(* The game keeps time: as long as KEY0 is left alone all frames are       *)
(* equally long.                                                           *)
FramesAreEven ==
  [][FrameEdge /\ since >= 0 => since + 1 = (hpixels + 1) * (vlines + 1)]_displayVars

(* A tank whose bar is empty is reported to the state machine, when nobody *)
(* holds KEY0 for ever and with it the frame clock.                        *)
DeathReachesTheGame == <>[]~Reset => DeathIsReported

(* Likewise a player who lets go of the fire key gets the gun back.        *)
GunComesBack == <>[]~Reset => ReleaseRearms

-----------------------------------------------------------------------------
(* Why: the vertical sync signal says whether the line below the one of    *)
(* the last pixel is in the sync pulse, so that it rises at one place of   *)
(* the picture only, and the pixels since tell how far behind it that is.  *)
SyncTellsTheLine ==
  IF since = -2 THEN ~vs /\ hc = 0 /\ vc = 0
  ELSE vs = ((IF hc = 0 THEN vc ELSE vc + 1) \notin VSync)

Place == vc * (hpixels + 1) + hc
PictureSize == (hpixels + 1) * (vlines + 1)

SinceTellsThePlace ==
  /\ since \in Int /\ since >= -2
  /\ since >= 0 =>
       \E l \in VSync :
         LET edge == l * (hpixels + 1) IN
         /\ l + 1 \notin VSync
         /\ Place = edge + 1 + since \/ (Place <= edge /\ Place + PictureSize = edge + 1 + since)

(* A contact whose hit is still pending has cost nothing yet.              *)
PendingHitIsFirst ==
  \A t \in Tanks : cost[t] \in 0..1 /\ (posedge_detected[t] => cost[t] = 0)

(* The inductive invariant of the proofs in DisplayProofs.                 *)
DisplayInv ==
  /\ VgaTypeOK
  /\ counter \in 0..1 /\ slow_clock \in BOOLEAN
  /\ picture \in [Tanks -> 1..2]
  /\ SyncTellsTheLine
  /\ SinceTellsThePlace
=============================================================================
