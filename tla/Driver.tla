------------------------------- MODULE Driver -------------------------------
(***************************************************************************)
(* The tanks of module Tank with their triggers, under players who press   *)
(* what they like between frames.  Whether the enemy is hit or dead is a   *)
(* free input.  No frame comes while KEY0 is down (module Round), so that  *)
(* holding the button is the same as pressing it.                          *)
(***************************************************************************)
EXTENDS Tank

CONSTANT Pads      \* the contents of the keycode registers that are tried

ASSUME PadsAssumption == Pads # {} /\ \A p \in Pads : DOMAIN p = Slots

driverVars == <<trigger, tankVars>>

DriverInit == CounterInit /\ TankInit

DriverFrame(pad) ==
  /\ \E enemyHit \in [Tanks -> BOOLEAN] : TankClock(pad, enemyHit)
  /\ CounterClock(GameReset(pad[0]), [t \in Tanks |-> FireKeyDown(t, pad)])

SomeFrame == \E pad \in Pads : DriverFrame(pad)

DriverReset == TankReset /\ UNCHANGED trigger

DriverNext == SomeFrame \/ DriverReset

DriverSpec == DriverInit /\ [][DriverNext]_driverVars

-----------------------------------------------------------------------------
DriverTypeOK == trigger \in [Tanks -> States] /\ TankTypeOK

(* While a bullet stays in flight it flies straight at constant speed.     *)
BulletsFlyStraight ==
  [][loaded' =>
       \A t \in Tanks, b \in Bullets :
         flag[t][b] /\ flag'[t][b] =>
           /\ bdir'[t][b] = bdir[t][b]
           /\ bpos'[t][b] = Moved(bpos[t][b], Scaled(BulletStep, Unit(bdir[t][b])))
    ]_driverVars

(* However many keys are down, a tank moves at most one pixel per frame    *)
(* and never diagonally; only KEY0 puts it elsewhere.                      *)
OnePixelPerFrame ==
  [][loaded' =>
       \A t \in Tanks : \E m \in Units \cup {Still} : pos'[t] = Moved(pos[t], m)]_driverVars

(* "Two-player gameplay with independent movement and firing controls"     *)
(* (README.md:11): a steering key of a tank that is in a register, alone   *)
(* of the keys that steer this tank, and whose way is free turns the tank, *)
(* whatever the other player holds in the other registers.                 *)
Pressed(t, pad) ==
  {Steering(t, 0)[pad[i]] : i \in {j \in Slots : pad[j] \in DOMAIN Steering(t, 0)}}

IndependentControls ==
  [][\A pad \in Pads : DriverFrame(pad) =>
       \A t \in Tanks, d \in Directions :
         Pressed(t, pad) = {d} /\ ~Blocked(t, d) => direction'[t] = d]_driverVars
=============================================================================
