---------------------------- MODULE DisplayProofs ---------------------------
(***************************************************************************)
(* Proofs about the VGA controller and what its frame clock drives, for    *)
(* every picture size and every place and length of the sync pulses.       *)
(* DisplayInv is inductive and says where in the picture the frame clock   *)
(* rises; the health bars and the triggers of the display are those of the *)
(* modules Health and Gunner, so that what is proved of these in           *)
(* HealthProofs and TankProofs holds here.                                 *)
(***************************************************************************)
EXTENDS Display, HealthProofs, TankProofs

(* The line the sync signal tells about.                                   *)
Line == IF hc = 0 THEN vc ELSE vc + 1

-----------------------------------------------------------------------------
(* The counters.                                                           *)
LEMMA CountersStay ==
  ASSUME VgaTypeOK
  PROVE  NextHc \in 0..hpixels /\ NextVc \in 0..vlines
<1>1. /\ hc \in 0..hpixels /\ vc \in 0..vlines
      /\ hpixels \in Nat /\ vlines \in Nat
  BY VgaAssumption DEF VgaTypeOK
<1>2. NextHc \in 0..hpixels
  BY <1>1 DEF NextHc
<1>3. NextVc \in 0..vlines
  <2>1. CASE hc = hpixels /\ vc = vlines
    BY <1>1, <2>1 DEF NextVc
  <2>2. CASE hc # hpixels
    BY <1>1, <2>2 DEF NextVc
  <2>3. CASE hc = hpixels /\ vc # vlines
    BY <1>1, <2>3 DEF NextVc
  <2> QED BY <2>1, <2>2, <2>3
<1> QED BY <1>2, <1>3

(* No pulse covers the first line, nor the one after the last.             *)
LEMMA PulseIsInside ==
  /\ 0 \notin VSync /\ 1 \notin VSync /\ vlines + 1 \notin VSync
  /\ \A l \in VSync : l \in Nat /\ VVisible + 1 <= l /\ l <= vlines - 1
BY VgaAssumption

(* A pulse has one last line.                                              *)
LEMMA PulseHasOneEnd ==
  ASSUME NEW k \in VSync, NEW l \in VSync, k + 1 \notin VSync, l + 1 \notin VSync
  PROVE  k = l
<1>1. PICK first \in 1..1023, last \in 1..1023 : VSync = first..last
  BY VgaAssumption
<1>2. k = last /\ l = last
  BY <1>1
<1> QED BY <1>2

(* One pixel further, around the corner of the picture at its end.         *)
LEMMA NextPlace ==
  ASSUME VgaTypeOK, Pixel
  PROVE  /\ Place \in Nat /\ PictureSize \in Nat /\ Place < PictureSize
         /\ Place' = IF hc = hpixels /\ vc = vlines THEN 0 ELSE Place + 1
         /\ hc = hpixels /\ vc = vlines => Place + 1 = PictureSize
<1> USE VgaAssumption
<1>1. hc \in 0..hpixels /\ vc \in 0..vlines /\ hpixels \in Nat /\ vlines \in Nat
  BY DEF VgaTypeOK
<1>2. Place \in Nat /\ PictureSize \in Nat
  BY <1>1 DEF Place, PictureSize
<1>3. vc * (hpixels + 1) <= vlines * (hpixels + 1)
  BY <1>1
<1>4. PictureSize = vlines * (hpixels + 1) + hpixels + 1
  BY <1>1 DEF PictureSize
<1>5. Place < PictureSize
  BY <1>1, <1>3, <1>4 DEF Place
<1>6. CASE hc # hpixels
  BY <1>1, <1>2, <1>5, <1>6 DEF Pixel, NextHc, NextVc, Place
<1>7. CASE hc = hpixels /\ vc # vlines
  <2>1. hc' = 0 /\ vc' = vc + 1
    BY <1>7 DEF Pixel, NextHc, NextVc
  <2>2. (vc + 1) * (hpixels + 1) = vc * (hpixels + 1) + hpixels + 1
    BY <1>1
  <2> QED BY <1>1, <1>2, <1>5, <1>7, <2>1, <2>2 DEF Place
<1>8. CASE hc = hpixels /\ vc = vlines
  <2>1. hc' = 0 /\ vc' = 0
    BY <1>8 DEF Pixel, NextHc, NextVc
  <2>2. Place' = 0
    BY <1>1, <2>1 DEF Place
  <2>3. Place + 1 = PictureSize
    BY <1>1, <1>4, <1>8 DEF Place
  <2> QED BY <1>2, <1>5, <1>8, <2>2, <2>3
<1> QED BY <1>6, <1>7, <1>8

-----------------------------------------------------------------------------
(* The frame clock rises at the first pixel of the last line of the pulse. *)
LEMMA EdgePlace ==
  ASSUME VgaTypeOK, SyncTellsTheLine, Pixel, FrameEdge, since # -2
  PROVE  hc = 0 /\ vc \in VSync /\ vc + 1 \notin VSync
<1>1. vs' = ((vc + 1) \notin VSync)
  BY DEF Pixel, NextVs
<1>2. Line \in VSync
  BY DEF SyncTellsTheLine, Line, FrameEdge
<1>3. vc + 1 \notin VSync
  BY <1>1 DEF FrameEdge
<1> QED BY <1>2, <1>3 DEF Line

LEMMA PixelKeepsSync ==
  ASSUME VgaTypeOK, SyncTellsTheLine, Draw, since \in Int
  PROVE  SyncTellsTheLine'
<1> USE VgaAssumption
<1>1. hc \in 0..hpixels /\ vc \in 0..vlines
  BY DEF VgaTypeOK
<1>2. vs' = ((vc + 1) \notin VSync) /\ hc' = NextHc /\ vc' = NextVc
  BY DEF Draw, Pixel, NextVs
<1>3. since' # -2
  <2>1. CASE since = -2
    <3>1. ~vs /\ vc + 1 = 1
      BY <2>1 DEF SyncTellsTheLine
    <3>2. vc + 1 \notin VSync
      BY <3>1, PulseIsInside
    <3>3. vs'
      BY <1>2, <3>2
    <3> QED BY <2>1, <3>1, <3>3 DEF Draw, FrameEdge
  <2>2. CASE since # -2
    BY <2>2 DEF Draw
  <2> QED BY <2>1, <2>2
<1>4. CASE hc # hpixels
  BY <1>1, <1>2, <1>3, <1>4 DEF NextHc, NextVc, SyncTellsTheLine
<1>5. CASE hc = hpixels /\ vc # vlines
  BY <1>1, <1>2, <1>3, <1>5 DEF NextHc, NextVc, SyncTellsTheLine
<1>6. CASE hc = hpixels /\ vc = vlines
  BY <1>1, <1>2, <1>3, <1>6, PulseIsInside DEF NextHc, NextVc, SyncTellsTheLine
<1> QED BY <1>4, <1>5, <1>6

LEMMA PixelKeepsSince ==
  ASSUME VgaTypeOK, SyncTellsTheLine, SinceTellsThePlace, Draw
  PROVE  SinceTellsThePlace'
<1> USE VgaAssumption
<1>1. hc \in 0..hpixels /\ vc \in 0..vlines /\ since \in Int /\ since >= -2
  BY DEF VgaTypeOK, SinceTellsThePlace
<1>2. Pixel
  BY DEF Draw
<1>3. /\ Place \in Nat /\ PictureSize \in Nat /\ Place < PictureSize
      /\ Place' = IF hc = hpixels /\ vc = vlines THEN 0 ELSE Place + 1
      /\ hc = hpixels /\ vc = vlines => Place + 1 = PictureSize
  BY <1>2, NextPlace
<1>4. PictureSize' = PictureSize
  BY DEF PictureSize
<1>5. \A l \in VSync : l * (hpixels + 1) \in Nat
  BY PulseIsInside
<1>6. CASE FrameEdge /\ since = -2
  <2>1. since' = -1
    BY <1>6 DEF Draw
  <2> QED BY <2>1 DEF SinceTellsThePlace
<1>7. CASE FrameEdge /\ since # -2
  <2>1. since' = 0
    BY <1>7 DEF Draw
  <2>2. hc = 0 /\ vc \in VSync /\ vc + 1 \notin VSync
    BY <1>2, <1>7, EdgePlace
  <2>3. Place = vc * (hpixels + 1)
    BY <1>1, <2>2 DEF Place
  <2>4. Place' = vc * (hpixels + 1) + 1 + since'
    BY <1>3, <2>1, <2>2, <2>3
  <2> QED BY <2>1, <2>2, <2>4 DEF SinceTellsThePlace
<1>8. CASE ~FrameEdge /\ since < 0
  <2>1. since' = since
    BY <1>8 DEF Draw
  <2> QED BY <1>1, <1>8, <2>1 DEF SinceTellsThePlace
<1>9. CASE ~FrameEdge /\ since >= 0
  <2>1. since' = since + 1 /\ since' \in Int /\ since' >= -2
    BY <1>1, <1>9 DEF Draw
  <2>2. PICK l \in VSync :
          /\ l + 1 \notin VSync
          /\ \/ Place = l * (hpixels + 1) + 1 + since
             \/ /\ Place <= l * (hpixels + 1)
                /\ Place + PictureSize = l * (hpixels + 1) + 1 + since
    BY <1>9 DEF SinceTellsThePlace
  <2> DEFINE edge == l * (hpixels + 1)
  <2>3. edge \in Nat
    BY <1>5
  <2>4. Place # edge
    <3>1. SUFFICES ASSUME Place = edge PROVE FALSE
      OBVIOUS
    <3>2. hc = 0 /\ vc = l
      <4>1. vc * (hpixels + 1) + hc = l * (hpixels + 1) /\ l \in Nat /\ vc \in Nat
        BY <1>1, <3>1, PulseIsInside DEF Place
      <4>2. CASE vc >= l + 1
        <5>1. vc * (hpixels + 1) >= (l + 1) * (hpixels + 1)
          BY <1>1, <4>1, <4>2
        <5>2. (l + 1) * (hpixels + 1) = l * (hpixels + 1) + hpixels + 1
          BY <4>1
        <5> QED BY <1>1, <4>1, <5>1, <5>2, <2>3
      <4>3. CASE l >= vc + 1
        <5>1. l * (hpixels + 1) >= (vc + 1) * (hpixels + 1)
          BY <1>1, <4>1, <4>3
        <5>2. (vc + 1) * (hpixels + 1) = vc * (hpixels + 1) + hpixels + 1
          BY <4>1
        <5> QED BY <1>1, <4>1, <5>1, <5>2, <2>3
      <4>4. CASE vc = l
        BY <1>1, <4>1, <4>4, <2>3
      <4> QED BY <4>1, <4>2, <4>3, <4>4
    <3>3. ~vs
      BY <1>9, <3>2 DEF SyncTellsTheLine
    <3>4. vs'
      BY <1>2, <2>2, <3>2 DEF Pixel, NextVs
    <3> QED BY <1>9, <3>3, <3>4 DEF FrameEdge
  <2>5. \/ Place' = edge + 1 + since'
        \/ Place' <= edge /\ Place' + PictureSize = edge + 1 + since'
    <3> HIDE DEF edge
    <3>1. CASE hc = hpixels /\ vc = vlines
      <4>1. l * (hpixels + 1) + 1 <= PictureSize
        <5>1. l \in Nat /\ l <= vlines
          BY PulseIsInside
        <5>2. l * (hpixels + 1) <= vlines * (hpixels + 1)
          BY <5>1
        <5>3. PictureSize = vlines * (hpixels + 1) + hpixels + 1
          BY DEF PictureSize
        <5>4. vlines * (hpixels + 1) \in Nat /\ l * (hpixels + 1) \in Nat
          BY <1>5
        <5> QED BY <5>2, <5>3, <5>4
      <4>2. Place' = 0 /\ Place + 1 = PictureSize
        BY <1>3, <3>1
      <4> QED BY <1>1, <1>3, <2>1, <2>2, <2>3, <2>4, <4>1, <4>2 DEF edge
    <3>2. CASE ~(hc = hpixels /\ vc = vlines)
      <4>1. Place' = Place + 1
        BY <1>3, <3>2
      <4>2. Place = edge + 1 + since \/ (Place <= edge /\ Place + PictureSize = edge + 1 + since)
        BY <2>2 DEF edge
      <4> QED BY <1>1, <1>3, <2>1, <2>3, <2>4, <4>1, <4>2
    <3> QED BY <3>1, <3>2
  <2> QED BY <1>4, <2>1, <2>2, <2>5 DEF SinceTellsThePlace
<1> QED BY <1>1, <1>6, <1>7, <1>8, <1>9

-----------------------------------------------------------------------------
(* What the frame clock does.                                              *)
LEMMA FrameClockIsHealthFrame == resetting \in BOOLEAN /\ FrameClock => HealthFrame
BY DEF FrameClock, HealthFrame

LEMMA FrameKeepsAnimators ==
  ASSUME counter \in 0..1, slow_clock \in BOOLEAN, picture \in [Tanks -> 1..2], FrameClock
  PROVE  counter' \in 0..1 /\ slow_clock' \in BOOLEAN /\ picture' \in [Tanks -> 1..2]
<1>1. PICK steering \in [Tanks -> BOOLEAN] : AnimatorFrame(resetting, steering)
  BY DEF FrameClock
<1>2. counter' \in 0..1 /\ slow_clock' \in BOOLEAN
  <2>1. CASE resetting
    <3>1. counter' = 0 /\ slow_clock' = FALSE
      BY <1>1, <2>1 DEF AnimatorFrame, Divider
    <3>2. slow_clock' \in BOOLEAN
      BY <3>1, Zenon
    <3> QED BY <3>1, <3>2
  <2>2. CASE ~resetting /\ counter = 1
    BY <1>1, <2>2 DEF AnimatorFrame, Divider
  <2>3. CASE ~resetting /\ counter # 1
    BY <1>1, <2>3 DEF AnimatorFrame, Divider
  <2> QED BY <2>1, <2>2, <2>3
<1>3. picture' \in [Tanks -> 1..2]
  <2>1. CASE UNCHANGED picture
    BY <2>1
  <2>2. CASE Animator(resetting, steering)
    <3>1. \A t \in Tanks : 3 - picture[t] \in 1..2 /\ picture[t] \in 1..2
      OBVIOUS
    <3> QED BY <2>2, <3>1 DEF Animator
  <2> QED BY <1>1, <2>1, <2>2 DEF AnimatorFrame
<1> QED BY <1>2, <1>3

(* What a frame does to the hits that the contact of a tank has cost.      *)
LEMMA FrameCountsHits ==
  ASSUME HealthInv, PendingHitIsFirst, resetting \in BOOLEAN, FrameClock
  PROVE  PendingHitIsFirst'
<1> SUFFICES ASSUME NEW t \in Tanks
             PROVE  cost'[t] \in 0..1 /\ (posedge_detected'[t] => cost'[t] = 0)
  BY DEF PendingHitIsFirst
<1>1. PICK shield_on, collision \in [Tanks -> BOOLEAN] :
        HealthClock(resetting, shield_on, collision)
  BY DEF FrameClock
<1>2. /\ posedge_detected'[t] = EdgeDetector(t, resetting, collision[t])
      /\ signal_in_prev'[t] = collision[t]
      /\ health'[t] = NextHealth(t, resetting, shield_on[t])
      /\ cost'[t] = (IF ContactBegins(t) THEN 0 ELSE cost[t])
                    + (IF health'[t] < health[t] THEN 1 ELSE 0)
  BY <1>1 DEF HealthClock, FrameClock, CountHits
<1>3. /\ health[t] \in Bars /\ health[t] \in Nat
      /\ cost[t] \in 0..1 /\ (posedge_detected[t] => cost[t] = 0)
      /\ posedge_detected[t] => signal_in_prev[t] /\ health[t] # 0
  BY BarRange DEF HealthInv, HealthTypeOK, Bars, PendingHitSeen, NoHitPendingOnEmpty,
                  PendingHitIsFirst
<1>4. ASSUME health'[t] < health[t]
      PROVE  posedge_detected[t] /\ ~resetting
  <2>1. ~resetting
    <3>1. SUFFICES ASSUME resetting PROVE FALSE
      OBVIOUS
    <3>2. health'[t] = MaxHealth
      BY <1>2, <3>1 DEF NextHealth
    <3> QED BY <1>3, <1>4, <3>2, BarRange
  <2>2. posedge_detected[t]
    <3>1. SUFFICES ASSUME ~posedge_detected[t] PROVE FALSE
      OBVIOUS
    <3>2. health'[t] = health[t]
      BY <1>2, <2>1, <3>1 DEF NextHealth
    <3> QED BY <1>3, <1>4, <3>2
  <2> QED BY <2>1, <2>2
<1>5. CASE health'[t] < health[t]
  <2>1. ~ContactBegins(t) /\ cost[t] = 0
    BY <1>3, <1>4, <1>5 DEF ContactBegins
  <2>2. ~posedge_detected'[t]
    BY <1>2, <1>3, <1>4, <1>5 DEF EdgeDetector
  <2>3. cost'[t] = 1
    BY <1>2, <1>5, <2>1
  <2> QED BY <2>2, <2>3
<1>6. CASE ~(health'[t] < health[t])
  <2>1. posedge_detected'[t] => ContactBegins(t)
    BY <1>2, <1>3 DEF EdgeDetector, ContactBegins
  <2>2. cost'[t] = IF ContactBegins(t) THEN 0 ELSE cost[t]
    BY <1>2, <1>3, <1>6
  <2> QED BY <1>3, <2>1, <2>2
<1> QED BY <1>5, <1>6

-----------------------------------------------------------------------------
(* The inductive invariant.                                                *)
LEMMA DisplayStart == DisplayInit => DisplayInv
<1> SUFFICES ASSUME DisplayInit PROVE DisplayInv
  OBVIOUS
<1> USE DEF DisplayInit, VgaInit, AnimatorInit
<1>1. VgaTypeOK
  <2>1. {Reset, clkdiv, hs, vs} \subseteq BOOLEAN
    BY Zenon
  <2>2. hc \in 0..hpixels /\ vc \in 0..vlines
    BY VgaAssumption
  <2> QED BY <2>1, <2>2 DEF VgaTypeOK
<1>2. picture \in [Tanks -> 1..2] /\ counter \in 0..1 /\ slow_clock \in BOOLEAN
  <2>1. slow_clock \in BOOLEAN
    BY Zenon
  <2>2. counter = 0 /\ picture = [t \in Tanks |-> 1] /\ 1 \in 1..2
    OBVIOUS
  <2> QED BY <2>1, <2>2
<1>3. SyncTellsTheLine /\ SinceTellsThePlace
  BY DEF SyncTellsTheLine, SinceTellsThePlace
<1> QED BY <1>1, <1>2, <1>3 DEF DisplayInv

LEMMA DrawKeepsInvariant ==
  ASSUME DisplayInv, Draw
  PROVE  DisplayInv'
<1>1. VgaTypeOK'
  <2>1. hc' \in 0..hpixels /\ vc' \in 0..vlines
    BY CountersStay DEF DisplayInv, Draw, Pixel
  <2>2. {Reset', clkdiv', hs', vs'} \subseteq BOOLEAN
    BY DEF DisplayInv, VgaTypeOK, Draw, Pixel, NextVs
  <2> QED BY <2>1, <2>2 DEF VgaTypeOK
<1>2. counter' \in 0..1 /\ slow_clock' \in BOOLEAN /\ picture' \in [Tanks -> 1..2]
  BY FrameKeepsAnimators DEF DisplayInv, Draw, animatorVars
<1>3. SyncTellsTheLine' /\ SinceTellsThePlace'
  BY PixelKeepsSync, PixelKeepsSince DEF DisplayInv, SinceTellsThePlace
<1> QED BY <1>1, <1>2, <1>3 DEF DisplayInv

LEMMA DisplayStep == DisplayInv /\ [DisplayNext]_displayVars => DisplayInv'
<1> SUFFICES ASSUME DisplayInv, [DisplayNext]_displayVars
             PROVE  DisplayInv'
  OBVIOUS
<1> USE DEF DisplayInv, VgaTypeOK, SyncTellsTheLine, SinceTellsThePlace, Place, PictureSize
<1>1. CASE Draw
  BY <1>1, DrawKeepsInvariant
<1>2. CASE PressKEY0
  <2>1. {Reset', clkdiv', hs', vs'} \subseteq BOOLEAN
    BY <1>2, Zenon DEF PressKEY0, PressReset
  <2>2. hc' = 0 /\ vc' = 0 /\ ~vs' /\ since' = -2
    BY <1>2 DEF PressKEY0, PressReset
  <2>3. VgaTypeOK'
    BY <2>1, <2>2, VgaAssumption
  <2> QED BY <1>2, <2>2, <2>3 DEF PressKEY0, animatorVars
<1>3. CASE ReleaseKEY0
  BY <1>3 DEF ReleaseKEY0, ReleaseReset, animatorVars
<1>4. CASE Rest
  BY <1>4 DEF Rest, HalfPixel, animatorVars
<1>5. CASE KeyChange
  BY <1>5 DEF KeyChange, vgaVars, animatorVars
<1>6. CASE UNCHANGED displayVars
  BY <1>6 DEF displayVars, vgaVars, animatorVars
<1> QED BY <1>1, <1>2, <1>3, <1>4, <1>5, <1>6 DEF DisplayNext

(* The inductive invariant holds in every state of the display.            *)
THEOREM DisplayInvariant == DisplaySpec => []DisplayInv
<1> QED BY DisplayStart, DisplayStep, PTL DEF DisplaySpec

-----------------------------------------------------------------------------
(* The triggers on the frame clock of the display are those of module      *)
(* Gunner: what is proved there holds here (bulletcounter.sv).             *)
THEOREM DisplayImplementsGunner == DisplaySpec => GunnerSpec
<1>1. DisplayInit => GunnerInit
  BY DEF DisplayInit
<1>2. [DisplayNext]_displayVars => [GunnerNext]_gunnerVars
  <2> SUFFICES ASSUME [DisplayNext]_displayVars PROVE [GunnerNext]_gunnerVars
    OBVIOUS
  <2>1. CASE Draw
    BY <2>1 DEF Draw, FrameClock, GunnerNext
  <2>2. CASE KeyChange
    BY <2>2 DEF KeyChange, GunnerNext
  <2>3. CASE UNCHANGED gunnerVars
    BY <2>3
  <2> QED BY <2>1, <2>2, <2>3 DEF DisplayNext, PressKEY0, ReleaseKEY0, Rest, displayVars
<1> QED BY <1>1, <1>2, PTL DEF DisplaySpec, GunnerSpec

(* The health bars on the frame clock of the display are those of module   *)
(* Health: what is proved there holds here (health.sv, finalproject.sv).   *)
THEOREM DisplayImplementsHealth == DisplaySpec => HealthSpec
<1>1. DisplayInit => HealthInit
  BY DEF DisplayInit
<1>2. GunnerTypeOK /\ [DisplayNext]_displayVars => [HealthFrame]_healthVars
  <2> SUFFICES ASSUME resetting \in BOOLEAN, [DisplayNext]_displayVars
               PROVE  [HealthFrame]_healthVars
    BY DEF GunnerTypeOK
  <2>1. CASE FrameClock
    BY <2>1, FrameClockIsHealthFrame
  <2>2. CASE UNCHANGED healthVars
    BY <2>2
  <2> QED BY <2>1, <2>2
          DEF DisplayNext, Draw, PressKEY0, ReleaseKEY0, Rest, KeyChange, displayVars
<1> QED BY <1>1, <1>2, DisplayImplementsGunner, GunnerTypeCorrect, PTL
        DEF DisplaySpec, HealthSpec

(* All registers keep their types, whenever KEY0 is pressed                *)
(* (VGA_controller.sv:57-141, health.sv, bulletcounter.sv,                 *)
(* animator_fsms.sv).                                                      *)
THEOREM DisplayTypeCorrect == DisplaySpec => []DisplayTypeOK
<1>1. DisplayInv /\ HealthTypeOK /\ GunnerTypeOK => DisplayTypeOK
  BY DEF DisplayInv, DisplayTypeOK
<1> QED BY <1>1, DisplayInvariant, DisplayImplementsHealth, HealthTypeCorrect,
           DisplayImplementsGunner, GunnerTypeCorrect, PTL

(* A contact is charged with one hit at most, however many frames it       *)
(* lasts, and also when the bars are refilled meanwhile                    *)
(* (health.sv:14-16, 30-32).                                               *)
THEOREM ContactCostsOneHit == DisplaySpec => []OneHitPerContact
<1>1. DisplayInit => PendingHitIsFirst
  BY DEF DisplayInit, HealthInit, PendingHitIsFirst
<1>2. /\ PendingHitIsFirst /\ HealthInv /\ GunnerTypeOK
      /\ [DisplayNext]_displayVars
      => PendingHitIsFirst'
  <2> SUFFICES ASSUME PendingHitIsFirst, HealthInv, GunnerTypeOK, [DisplayNext]_displayVars
               PROVE  PendingHitIsFirst'
    OBVIOUS
  <2>1. CASE FrameClock
    BY <2>1, FrameCountsHits DEF GunnerTypeOK
  <2>2. CASE UNCHANGED <<healthVars, cost>>
    BY <2>2 DEF healthVars, PendingHitIsFirst
  <2> QED BY <2>1, <2>2
          DEF DisplayNext, Draw, PressKEY0, ReleaseKEY0, Rest, KeyChange, displayVars
<1>3. PendingHitIsFirst => OneHitPerContact
  BY DEF PendingHitIsFirst, OneHitPerContact
<1> QED BY <1>1, <1>2, <1>3, DisplayImplementsHealth, HealthInvariant,
           DisplayImplementsGunner, GunnerTypeCorrect, PTL DEF DisplaySpec

(* A hit is never pending on an empty bar of the game.                     *)
THEOREM DisplayNoUnderflow == DisplaySpec => []NoHitPendingOnEmpty
<1> QED BY DisplayImplementsHealth, NoUnderflow, PTL

(* The game moves in the blanking (VGA_controller.sv:60-113).              *)
THEOREM MovesInBlanking == DisplaySpec => GameMovesInBlanking
<1>1. DisplayInv /\ [DisplayNext]_displayVars =>
        [FrameEdge /\ since # -2 => ~display']_displayVars
  <2> SUFFICES ASSUME DisplayInv, DisplayNext, FrameEdge, since # -2
               PROVE  ~display'
    OBVIOUS
  <2>1. Draw
    BY DEF DisplayNext, PressKEY0, PressReset, ReleaseKEY0, ReleaseReset, Rest, HalfPixel,
           KeyChange, vgaVars, FrameEdge
  <2>2. hc = 0 /\ vc \in VSync
    BY <2>1, EdgePlace DEF Draw, DisplayInv
  <2>3. vc' = vc
    BY <2>1, <2>2, VgaAssumption DEF Draw, Pixel, NextVc
  <2>4. vc \in Nat /\ VVisible + 1 <= vc
    BY <2>2, PulseIsInside
  <2> QED BY <2>3, <2>4, VgaAssumption DEF display
<1> QED BY <1>1, DisplayInvariant, PTL DEF DisplaySpec, GameMovesInBlanking

(* All frames between two presses of KEY0 are equally long                 *)
(* (VGA_controller.sv:57-113).                                             *)
THEOREM FramesKeepTime == DisplaySpec => FramesAreEven
<1>1. DisplayInv /\ [DisplayNext]_displayVars =>
        [FrameEdge /\ since >= 0 => since + 1 = (hpixels + 1) * (vlines + 1)]_displayVars
  <2> SUFFICES ASSUME DisplayInv, DisplayNext, FrameEdge, since >= 0
               PROVE  since + 1 = (hpixels + 1) * (vlines + 1)
    OBVIOUS
  <2>1. Draw
    BY DEF DisplayNext, PressKEY0, PressReset, ReleaseKEY0, ReleaseReset, Rest, HalfPixel,
           KeyChange, vgaVars, FrameEdge
  <2>2. since \in Int /\ since # -2
    BY DEF DisplayInv, SinceTellsThePlace
  <2>3. hc = 0 /\ vc \in VSync /\ vc + 1 \notin VSync
    BY <2>1, <2>2, EdgePlace DEF Draw, DisplayInv
  <2>4. PICK l \in VSync :
          /\ l + 1 \notin VSync
          /\ \/ Place = l * (hpixels + 1) + 1 + since
             \/ /\ Place <= l * (hpixels + 1)
                /\ Place + PictureSize = l * (hpixels + 1) + 1 + since
    BY DEF DisplayInv, SinceTellsThePlace
  <2>5. l = vc
    BY <2>3, <2>4, PulseHasOneEnd
  <2>6. l * (hpixels + 1) \in Nat
    BY PulseIsInside, VgaAssumption
  <2>7. Place = l * (hpixels + 1)
    BY <2>3, <2>5, <2>6 DEF Place
  <2>8. PictureSize \in Nat
    BY VgaAssumption DEF PictureSize
  <2>9. since + 1 = PictureSize
    BY <2>2, <2>4, <2>6, <2>7, <2>8
  <2> QED BY <2>9 DEF PictureSize
<1> QED BY <1>1, DisplayInvariant, PTL DEF DisplaySpec, FramesAreEven
=============================================================================
