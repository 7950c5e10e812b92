----------------------------- MODULE TankProofs -----------------------------
(***************************************************************************)
(* Proofs about the tanks and their triggers.  First module Gunner: for    *)
(* any number of tanks, bullets and WAIT states GunnerInv is inductive.    *)
(* Then module Driver: for every ground, magazine, bullet speed and        *)
(* register width, and whatever the players press.  The lemmas about       *)
(* CounterClock, TankClock and TankReset are what the whole game needs of  *)
(* the tanks (module BattleProofs).                                        *)
(***************************************************************************)
EXTENDS Gunner, Driver, TLAPS

(* The triggers.                                                           *)

(* The bullet that follows a bullet of the magazine is in the magazine.    *)
LEMMA NextBulletInMagazine ==
  ASSUME NEW n \in 1..Magazine
  PROVE  NextBullet(n) \in 1..Magazine
<1>1. n % Magazine \in 0..(Magazine - 1)
  BY KeyCounterAssumption
<1> QED BY <1>1, KeyCounterAssumption DEF NextBullet

(* The fields of the states of the source, and that they are states.       *)
LEMMA StateFields ==
  ASSUME NEW n \in 1..Magazine, NEW k \in 0..Cooldown
  PROVE  /\ Armed(n) \in States /\ Armed(n).mode = "count"
         /\ Armed(n).mode # "wait"
         /\ Idle(n) \in States /\ Idle(n).mode = "idle"
         /\ Idle(n).mode # "wait" /\ Idle(n).mode # "count"
         /\ Wait(n, k) \in States /\ Wait(n, k).mode = "wait"
         /\ Wait(n, k).mode # "count" /\ Wait(n, k).tick = k
<1>1. 0 \in 0..Cooldown
  BY KeyCounterAssumption
<1>2. Armed(n) \in States /\ Idle(n) \in States /\ Wait(n, k) \in States
  BY <1>1 DEF Armed, Idle, Wait, States, Modes
<1>3. Armed(n).mode = "count" /\ Armed(n).mode # "wait"
  BY DEF Armed
<1>4. Idle(n).mode = "idle" /\ Idle(n).mode # "wait" /\ Idle(n).mode # "count"
  BY DEF Idle
<1>5. Wait(n, k).mode = "wait" /\ Wait(n, k).mode # "count" /\ Wait(n, k).tick = k
  BY DEF Wait
<1> QED BY <1>2, <1>3, <1>4, <1>5

LEMMA TriggersStart == CounterInit => trigger \in [Tanks -> States]
<1>1. 1 \in 1..Magazine /\ 0 \in 0..Cooldown
  BY KeyCounterAssumption
<1>2. Idle(1) \in States /\ Armed(1) \in States
  BY <1>1, StateFields
<1> QED BY <1>2 DEF CounterInit

(* A clock edge leaves every trigger in one of the states.                 *)
LEMMA TriggersStay ==
  ASSUME trigger \in [Tanks -> States], NEW reset, NEW down,
         CounterClock(reset, down)
  PROVE  trigger' \in [Tanks -> States]
<1> USE KeyCounterAssumption
<1>1. ASSUME NEW t \in Tanks
      PROVE  NextTrigger(t, down[t]) \in States
  <2> DEFINE n == trigger[t].bullet
             k == trigger[t].tick
  <2>1. trigger[t] \in States
    BY <1>1
  <2>2. n \in 1..Magazine /\ k \in 0..Cooldown /\ trigger[t].mode \in Modes
    BY <2>1 DEF States
  <2>3. 0 \in 0..Cooldown /\ 1 \in 0..Cooldown /\ (k < Cooldown => k + 1 \in 0..Cooldown)
    BY <2>2
  <2>4. NextBullet(n) \in 1..Magazine
    BY <2>2, NextBulletInMagazine
  <2>5. AfterCount(n, down[t]) \in States /\ AfterIdle(n, down[t]) \in States
    BY <2>2, <2>3, StateFields DEF AfterCount, AfterIdle
  <2>6. AfterWait(n, k) \in States
    BY <2>2, <2>3, <2>4, StateFields DEF AfterWait
  <2> QED BY <2>2, <2>5, <2>6 DEF NextTrigger, Modes
<1>2. Armed(1) \in States
  BY StateFields
<1> QED BY <1>1, <1>2 DEF CounterClock

-----------------------------------------------------------------------------
LEMMA GunnerStart == GunnerInit => GunnerInv
<1> SUFFICES ASSUME GunnerInit PROVE GunnerInv
  OBVIOUS
<1> USE KeyCounterAssumption
<1>0. 1 \in 1..Magazine /\ 0 \in 0..Cooldown
  OBVIOUS
<1>1. /\ Idle(1) \in States /\ Idle(1).mode # "wait"
      /\ Armed(1) \in States /\ Armed(1).mode # "wait"
  BY <1>0, StateFields
<1>2. GunnerTypeOK
  <2>1. trigger \in [Tanks -> States]
    BY TriggersStart DEF GunnerInit
  <2>2. gap \in [Tanks -> 0..FullGap]
    BY DEF GunnerInit, FullGap
  <2>3. /\ keydown \in [Tanks -> BOOLEAN] /\ lifted \in [Tanks -> BOOLEAN]
        /\ resetting \in BOOLEAN
    BY DEF GunnerInit
  <2> QED BY <2>1, <2>2, <2>3 DEF GunnerTypeOK
<1>3. \A t \in Tanks : trigger[t] \in {Idle(1), Armed(1)}
  BY DEF GunnerInit, CounterInit
<1>4. \A t \in Tanks : trigger[t].mode # "wait"
  BY <1>1, <1>3
<1> QED BY <1>2, <1>4 DEF GunnerInit, GunnerInv

-----------------------------------------------------------------------------
(* One clock edge of one trigger preserves what the invariant says of it.  *)
LEMMA FrameOfOneTrigger ==
  ASSUME GunnerInv,
         GunnerFrame,
         NEW t \in Tanks
  PROVE  /\ trigger'[t] \in States
         /\ gap'[t] \in 0..FullGap
         /\ lifted'[t] \in BOOLEAN
         /\ trigger'[t].mode = "wait" =>
              trigger'[t].tick >= 1 /\ lifted'[t] /\ gap'[t] >= trigger'[t].tick
         /\ trigger'[t].mode = "count" => lifted'[t] /\ gap'[t] = FullGap
<1> USE KeyCounterAssumption
<1>1. /\ trigger[t] \in States
      /\ keydown[t] \in BOOLEAN
      /\ gap[t] \in 0..FullGap
      /\ lifted[t] \in BOOLEAN
  BY DEF GunnerInv, GunnerTypeOK
<1>2. /\ trigger'[t] = IF resetting THEN Armed(1) ELSE NextTrigger(t, keydown[t])
      /\ gap'[t] = IF resetting THEN FullGap
                   ELSE IF Shoots(t, keydown) THEN 0
                   ELSE IF gap[t] < FullGap THEN gap[t] + 1
                   ELSE gap[t]
      /\ lifted'[t] = (resetting \/ ~keydown[t] \/ (lifted[t] /\ ~Shoots(t, keydown)))
  BY DEF GunnerFrame, CounterClock, History
<1> DEFINE n == trigger[t].bullet
           k == trigger[t].tick
<1>3. n \in 1..Magazine /\ k \in 0..Cooldown /\ trigger[t].mode \in Modes
  BY <1>1 DEF States
<1>4. FullGap \in Nat /\ FullGap = Cooldown + 1
  BY DEF FullGap
<1>5. CASE resetting
  <2>1. trigger'[t] = Armed(1) /\ gap'[t] = FullGap
    BY <1>2, <1>5
  <2>2. gap'[t] \in 0..FullGap
    BY <1>4, <2>1
  <2>3. lifted'[t] /\ lifted'[t] \in BOOLEAN
    BY <1>2, <1>5, Zenon
  <2>4. 1 \in 1..Magazine /\ 0 \in 0..Cooldown
    OBVIOUS
  <2>5. trigger'[t] \in States /\ trigger'[t].mode # "wait"
    BY <2>1, <2>4, StateFields
  <2> QED BY <2>1, <2>2, <2>3, <2>5, Zenon
<1>6. CASE ~resetting /\ trigger[t].mode = "count" /\ keydown[t]
  <2>1. trigger'[t] = Idle(n)
    BY <1>2, <1>6 DEF NextTrigger, AfterCount
  <2>2. Shoots(t, keydown)
    BY <1>3, <1>6 DEF Shoots, Count
  <2>3. gap'[t] \in 0..FullGap
    BY <1>2, <1>4, <1>6, <2>2
  <2>4. lifted'[t] \in BOOLEAN
    BY <1>2, Zenon
  <2>5. /\ trigger'[t] \in States
        /\ trigger'[t].mode # "wait" /\ trigger'[t].mode # "count"
    BY <1>3, <2>1, StateFields
  <2> QED BY <2>3, <2>4, <2>5, Zenon
<1>7. CASE ~resetting /\ trigger[t].mode = "count" /\ ~keydown[t]
  <2>1. trigger'[t] = Armed(n)
    BY <1>2, <1>7 DEF NextTrigger, AfterCount
  <2>2. ~Shoots(t, keydown)
    BY <1>7 DEF Shoots
  <2>3. gap[t] = FullGap
    BY <1>7, Zenon DEF GunnerInv
  <2>4. gap'[t] = FullGap /\ gap'[t] \in 0..FullGap
    BY <1>2, <1>4, <1>7, <2>2, <2>3
  <2>5. lifted'[t] /\ lifted'[t] \in BOOLEAN
    BY <1>2, <1>7, Zenon
  <2>6. trigger'[t] \in States /\ trigger'[t].mode # "wait"
    BY <1>3, <2>1, StateFields
  <2> QED BY <2>4, <2>5, <2>6, Zenon
<1>8. CASE ~resetting /\ trigger[t].mode = "idle"
  <2>1. trigger'[t] = AfterIdle(n, keydown[t])
    BY <1>2, <1>8 DEF NextTrigger
  <2>2. ~Shoots(t, keydown)
    BY <1>8 DEF Shoots, Count
  <2>3. gap'[t] \in 0..FullGap /\ gap'[t] >= 1
    BY <1>1, <1>2, <1>4, <1>8, <2>2
  <2>4. lifted'[t] \in BOOLEAN
    BY <1>2, Zenon
  <2>5. CASE keydown[t]
    <3>1. trigger'[t] = Idle(n)
      BY <2>1, <2>5 DEF AfterIdle
    <3>2. /\ trigger'[t] \in States
          /\ trigger'[t].mode # "wait" /\ trigger'[t].mode # "count"
      BY <1>3, <3>1, StateFields
    <3> QED BY <2>3, <2>4, <3>2, Zenon
  <2>6. CASE ~keydown[t]
    <3>1. trigger'[t] = Wait(n, 1)
      BY <2>1, <2>6 DEF AfterIdle
    <3>2. lifted'[t]
      BY <1>2, <2>6, Zenon
    <3>3. 1 \in 0..Cooldown
      OBVIOUS
    <3>4. /\ trigger'[t] \in States
          /\ trigger'[t].mode # "count" /\ trigger'[t].tick = 1
      BY <1>3, <3>1, <3>3, StateFields
    <3>5. trigger'[t].tick >= 1 /\ gap'[t] >= trigger'[t].tick
      BY <2>3, <3>4
    <3> QED BY <2>3, <2>4, <3>2, <3>4, <3>5, Zenon
  <2> QED BY <2>5, <2>6
<1>9. CASE ~resetting /\ trigger[t].mode = "wait"
  <2>1. trigger'[t] = AfterWait(n, k)
    BY <1>2, <1>9 DEF NextTrigger
  <2>2. ~Shoots(t, keydown)
    BY <1>9 DEF Shoots, Count
  <2>3. k >= 1 /\ lifted[t] /\ gap[t] >= k
    BY <1>9, Zenon DEF GunnerInv
  <2>4. lifted'[t] /\ lifted'[t] \in BOOLEAN
    BY <1>2, <2>2, <2>3, Zenon
  <2>5. gap[t] >= k /\ k >= 1
    BY <2>3, Zenon
  <2>6. gap'[t] \in 0..FullGap /\ (gap'[t] >= k + 1 \/ gap'[t] = FullGap)
    BY <1>1, <1>2, <1>3, <1>4, <1>9, <2>2, <2>5
  <2>7. CASE k < Cooldown
    <3>1. trigger'[t] = Wait(n, k + 1) /\ k + 1 \in 0..Cooldown
      BY <1>3, <2>1, <2>7 DEF AfterWait
    <3>2. /\ trigger'[t] \in States
          /\ trigger'[t].mode # "count" /\ trigger'[t].tick = k + 1
      BY <1>3, <3>1, StateFields
    <3>3. trigger'[t].tick >= 1 /\ gap'[t] >= trigger'[t].tick
      BY <1>3, <1>4, <2>6, <2>7, <3>2
    <3> QED BY <2>4, <2>6, <3>2, <3>3, Zenon
  <2>8. CASE ~(k < Cooldown)
    <3>1. trigger'[t] = Armed(NextBullet(n)) /\ NextBullet(n) \in 1..Magazine
      BY <1>3, <2>1, <2>8, NextBulletInMagazine DEF AfterWait
    <3>2. gap'[t] = FullGap
      BY <1>3, <1>4, <2>6, <2>8
    <3>3. trigger'[t] \in States /\ trigger'[t].mode # "wait"
      BY <1>3, <3>1, StateFields
    <3> QED BY <2>4, <2>6, <3>2, <3>3, Zenon
  <2> QED BY <2>7, <2>8
<1> QED BY <1>3, <1>5, <1>6, <1>7, <1>8, <1>9 DEF Modes

LEMMA GunnerFrameInv ==
  ASSUME GunnerInv, GunnerFrame
  PROVE  GunnerInv'
<1>1. \A t \in Tanks :
        /\ trigger'[t] \in States
        /\ gap'[t] \in 0..FullGap
        /\ lifted'[t] \in BOOLEAN
        /\ trigger'[t].mode = "wait" =>
             trigger'[t].tick >= 1 /\ lifted'[t] /\ gap'[t] >= trigger'[t].tick
        /\ trigger'[t].mode = "count" => lifted'[t] /\ gap'[t] = FullGap
  BY FrameOfOneTrigger
<1>2. /\ \E f : trigger' = [t \in Tanks |-> f[t]]
      /\ \E f : gap' = [t \in Tanks |-> f[t]]
      /\ \E f : lifted' = [t \in Tanks |-> f[t]]
  <2>1. trigger' = [t \in Tanks |-> trigger'[t]]
    BY DEF GunnerFrame, CounterClock
  <2>2. gap' = [t \in Tanks |-> gap'[t]] /\ lifted' = [t \in Tanks |-> lifted'[t]]
    BY DEF GunnerFrame, History
  <2> QED BY <2>1, <2>2
<1>3. keydown' \in [Tanks -> BOOLEAN] /\ resetting' \in BOOLEAN
  BY DEF GunnerFrame, GunnerInv, GunnerTypeOK
<1>4. GunnerTypeOK'
  BY <1>1, <1>2, <1>3 DEF GunnerTypeOK
<1> QED BY <1>1, <1>4 DEF GunnerInv

(* The inductive invariant holds in every state of the triggers.           *)
THEOREM GunnerInvariant == GunnerSpec => []GunnerInv
<1>1. GunnerInit => GunnerInv
  BY GunnerStart
<1>2. GunnerInv /\ [GunnerNext]_gunnerVars => GunnerInv'
  <2> SUFFICES ASSUME GunnerInv, [GunnerNext]_gunnerVars
               PROVE  GunnerInv'
    OBVIOUS
  <2>1. CASE GunnerFrame
    BY <2>1, GunnerFrameInv
  <2>2. CASE FireKeyChange
    <3>1. keydown' \in [Tanks -> BOOLEAN]
      BY <2>2 DEF FireKeyChange, GunnerInv, GunnerTypeOK
    <3> QED BY <2>2, <3>1 DEF FireKeyChange, GunnerInv, GunnerTypeOK
  <2>3. CASE ResetKeyChange
    BY <2>3 DEF ResetKeyChange, GunnerInv, GunnerTypeOK
  <2>4. CASE UNCHANGED gunnerVars
    BY <2>4 DEF gunnerVars, GunnerInv, GunnerTypeOK
  <2> QED BY <2>1, <2>2, <2>3, <2>4 DEF GunnerNext
<1> QED BY <1>1, <1>2, PTL DEF GunnerSpec

-----------------------------------------------------------------------------
(* The counter stays in its fifteen states and names a bullet that exists. *)
THEOREM GunnerTypeCorrect == GunnerSpec => []GunnerTypeOK
<1>1. GunnerInv => GunnerTypeOK
  BY DEF GunnerInv
<1> QED BY <1>1, GunnerInvariant, PTL

(* A held key never fires twice.                                           *)
THEOREM HeldKeyFiresOnce == GunnerSpec => []ShotNeedsRelease
<1>1. GunnerInv => ShotNeedsRelease
  BY DEF GunnerInv, GunnerTypeOK, ShotNeedsRelease, Shoots, Count
<1> QED BY <1>1, GunnerInvariant, PTL

(* Two shots are never closer than Cooldown frames and the release.        *)
THEOREM RateOfFire == GunnerSpec => []ShotsAreSpaced
<1>1. GunnerInv => ShotsAreSpaced
  BY DEF GunnerInv, GunnerTypeOK, ShotsAreSpaced, Shoots, Count
<1> QED BY <1>1, GunnerInvariant, PTL

-----------------------------------------------------------------------------
(* Registers wrap, so an addition stays within the coordinates.            *)
LEMMA Remainder ==
  ASSUME NEW n \in Int
  PROVE  n % Modulus \in Coordinates
BY TankAssumption DEF Coordinates

LEMMA MovedStays ==
  ASSUME NEW p \in Positions, NEW m \in Int \X Int
  PROVE  Moved(p, m) \in Positions
<1>1. p[1] + m[1] \in Int /\ p[2] + m[2] \in Int
  BY TankAssumption DEF Positions, Coordinates
<1> QED BY <1>1, Remainder DEF Moved, Positions

LEMMA StayingIsMoving ==
  ASSUME NEW p \in Positions
  PROVE  Moved(p, Still) = p
<1>1. p[1] \in 0..(Modulus - 1) /\ p[2] \in 0..(Modulus - 1) /\ p = <<p[1], p[2]>>
  BY DEF Positions, Coordinates
<1>2. \A x \in 0..(Modulus - 1) : (x + 0) % Modulus = x
  BY TankAssumption
<1> QED BY <1>1, <1>2 DEF Moved, Still

LEMMA StepsArePairs == Units \cup {Still} \subseteq Int \X Int
BY DEF Units, Unit, Directions, Still

LEMMA VelocitiesArePairs == Velocities \subseteq Int \X Int
<1>1. BulletStep \in Nat
  BY TankAssumption
<1>2. \A u \in Int \X Int : Scaled(BulletStep, u) \in Int \X Int
  BY <1>1 DEF Scaled
<1> QED BY <1>2, StepsArePairs DEF Velocities, Still

(* The keys only ever name directions.                                     *)
LEMMA KeysAreDirections ==
  ASSUME NEW t, NEW pad, NEW i \in MoveSlots(t, pad)
  PROVE  Wish(t, pad, i) \in Directions
BY DEF MoveSlots, Wish, Steering, Steering1, Steering2, Steering2InKeycode2, Directions

LEMMA LastIsOne ==
  ASSUME NEW slots \in SUBSET Slots, slots # {}
  PROVE  Last(slots) \in slots
<1>1. \E i \in slots : \A j \in slots : j <= i
  <2>1. CASE 3 \in slots
    BY <2>1 DEF Slots
  <2>2. CASE 3 \notin slots /\ 2 \in slots
    BY <2>2 DEF Slots
  <2>3. CASE 3 \notin slots /\ 2 \notin slots /\ 1 \in slots
    BY <2>3 DEF Slots
  <2>4. CASE 3 \notin slots /\ 2 \notin slots /\ 1 \notin slots
    <3>1. \A i \in slots : i = 0
      BY <2>4 DEF Slots
    <3>2. PICK i \in slots : TRUE
      OBVIOUS
    <3> QED BY <3>1, <3>2
  <2> QED BY <2>1, <2>2, <2>3, <2>4 DEF Slots
<1> QED BY <1>1 DEF Last

-----------------------------------------------------------------------------
(* What a frame puts into each register.                                   *)
LEMMA NextDirectionType ==
  ASSUME NEW t \in Tanks, NEW pad, direction \in [Tanks -> Directions]
  PROVE  NextDirection(t, pad) \in Directions
<1>1. FreeSlots(t, pad) \subseteq MoveSlots(t, pad) /\ FreeSlots(t, pad) \in SUBSET Slots
  BY DEF FreeSlots, MoveSlots
<1>2. FreeSlots(t, pad) # {} => Last(FreeSlots(t, pad)) \in MoveSlots(t, pad)
  BY <1>1, LastIsOne
<1> QED BY <1>2, KeysAreDirections DEF NextDirection

LEMMA NextMotionType ==
  ASSUME NEW t \in Tanks, NEW pad, motion \in [Tanks -> Units \cup {Still}]
  PROVE  NextMotion(t, pad) \in Units \cup {Still}
<1>1. CASE MoveSlots(t, pad) = {}
  BY <1>1 DEF NextMotion
<1>2. CASE MoveSlots(t, pad) # {}
  <2>1. MoveSlots(t, pad) \in SUBSET Slots
    BY DEF MoveSlots
  <2>2. Last(MoveSlots(t, pad)) \in MoveSlots(t, pad)
    BY <1>2, <2>1, LastIsOne
  <2> DEFINE d == Wish(t, pad, Last(MoveSlots(t, pad)))
  <2>3. d \in Directions
    BY <2>2, KeysAreDirections
  <2>4. Opposite(d) \in Directions
    BY <2>3 DEF Opposite, Directions
  <2>5. NextMotion(t, pad) \in {Unit(Opposite(d)), Unit(d)}
    BY <1>2 DEF NextMotion
  <2> QED BY <2>3, <2>4, <2>5 DEF Units
<1> QED BY <1>1, <1>2

LEMMA NextPosType ==
  ASSUME NEW t \in Tanks, NEW pad,
         pos \in [Tanks -> Positions], motion \in [Tanks -> Units \cup {Still}]
  PROVE  /\ NextPos(t, pad) \in Positions
         /\ \E m \in Units \cup {Still} : NextPos(t, pad) = Moved(pos[t], m)
<1>1. pos[t] \in Positions /\ motion[t] \in Units \cup {Still} /\ motion[t] \in Int \X Int
  BY StepsArePairs
<1>2. Moved(pos[t], motion[t]) \in Positions
  BY <1>1, MovedStays
<1>3. Moved(pos[t], Still) = pos[t]
  BY <1>1, StayingIsMoving
<1> QED BY <1>1, <1>2, <1>3 DEF NextPos

LEMMA NextBulletType ==
  ASSUME NEW t \in Tanks, NEW b \in Bullets, NEW pad, NEW inFlight, TankTypeOK
  PROVE  /\ NextBulletPos(t, b, inFlight) \in Positions
         /\ NextBulletMotion(t, b, pad) \in Velocities
         /\ NextBulletDir(t, b, inFlight) \in Directions
<1> USE DEF TankTypeOK
<1>1. /\ pos[t] \in Positions /\ bpos[t][b] \in Positions
      /\ bmotion[t][b] \in Velocities /\ bmotion[t][b] \in Int \X Int
      /\ bdir[t][b] \in Directions /\ direction[t] \in Directions
  BY VelocitiesArePairs
<1>2. Moved(bpos[t][b], bmotion[t][b]) \in Positions
  BY <1>1, MovedStays
<1>3. Scaled(BulletStep, Unit(bdir[t][b])) \in Velocities
  BY <1>1 DEF Velocities, Units
<1> QED BY <1>1, <1>2, <1>3 DEF NextBulletPos, NextBulletMotion, NextBulletDir

-----------------------------------------------------------------------------
LEMMA TankStart == TankInit => TankTypeOK /\ ShotKeepsCourse
<1> SUFFICES ASSUME TankInit PROVE TankTypeOK /\ ShotKeepsCourse
  OBVIOUS
<1>1. Still \in Positions /\ \A t \in Tanks : Start[t] \in Positions
  BY TankAssumption DEF Still, Positions, Coordinates
<1>2. "up" \in Directions
  BY DEF Directions
<1>3. pos \in [Tanks -> Positions]
  BY <1>1 DEF TankInit
<1>4. Still \in Velocities
  BY DEF Velocities
<1>5. TankTypeOK
  BY <1>1, <1>2, <1>3, <1>4 DEF TankInit, TankTypeOK
<1>6. ShotKeepsCourse
  BY DEF TankInit, ShotKeepsCourse
<1> QED BY <1>5, <1>6

(* A frame, register by register.                                          *)
LEMMA TankClockType ==
  ASSUME TankTypeOK, NEW pad, NEW enemyHit, TankClock(pad, enemyHit)
  PROVE  TankTypeOK'
<1>1. pos' \in [Tanks -> Positions]
  BY NextPosType DEF TankClock, TankTypeOK
<1>2. motion' \in [Tanks -> Units \cup {Still}]
  BY NextMotionType DEF TankClock, TankTypeOK
<1>3. direction' \in [Tanks -> Directions]
  BY NextDirectionType DEF TankClock, TankTypeOK
<1>4. bpos' \in [Tanks -> [Bullets -> Positions]]
  BY NextBulletType DEF TankClock
<1>5. bmotion' \in [Tanks -> [Bullets -> Velocities]]
  BY NextBulletType DEF TankClock
<1>6. bdir' \in [Tanks -> [Bullets -> Directions]]
  BY NextBulletType DEF TankClock
<1>7. flag' \in [Tanks -> [Bullets -> BOOLEAN]]
  <2>1. \A t, b : NextFlag(t, b, pad, enemyHit[t]) \in BOOLEAN
    BY DEF NextFlag
  <2> QED BY <2>1 DEF TankClock
<1>8. loaded' \in BOOLEAN
  BY DEF TankClock
<1> QED BY <1>1, <1>2, <1>3, <1>4, <1>5, <1>6, <1>7, <1>8 DEF TankTypeOK

(* The shot that goes up loads the velocity of its direction and keeps it; *)
(* a bullet that stays in flight keeps both.                               *)
LEMMA TankClockCourse ==
  ASSUME TankTypeOK, ShotKeepsCourse, NEW pad, NEW enemyHit, TankClock(pad, enemyHit)
  PROVE  ShotKeepsCourse'
<1> SUFFICES ASSUME NEW t \in Tanks, NEW b \in Bullets, flag'[t][b]
             PROVE  bmotion'[t][b] = Scaled(BulletStep, Unit(bdir'[t][b]))
  BY DEF ShotKeepsCourse
<1>1. NextFlag(t, b, pad, enemyHit[t])
  BY DEF TankClock
<1>2. bdir'[t][b] = bdir[t][b]
  BY <1>1 DEF TankClock, NextBulletDir
<1>3. bmotion'[t][b] = NextBulletMotion(t, b, pad)
  BY DEF TankClock
<1>4. Fired(t, b, pad) \/ flag[t][b]
  BY <1>1 DEF NextFlag
<1> QED BY <1>2, <1>3, <1>4 DEF NextBulletMotion, ShotKeepsCourse

LEMMA TankResetKeeps ==
  ASSUME TankTypeOK, TankReset
  PROVE  TankTypeOK' /\ ShotKeepsCourse'
<1> USE DEF TankReset, TankTypeOK
<1>1. \A t \in Tanks : Start[t] \in Positions
  BY TankAssumption DEF Positions, Coordinates
<1>2. bmotion' \in [Tanks -> [Bullets -> Velocities]]
  BY DEF Velocities
<1>3. "up" \in Directions
  BY DEF Directions
<1>4. TankTypeOK'
  BY <1>1, <1>2, <1>3
<1>5. ShotKeepsCourse'
  BY DEF ShotKeepsCourse
<1> QED BY <1>4, <1>5

LEMMA DriverStart == DriverInit => DriverTypeOK /\ ShotKeepsCourse
BY TriggersStart, TankStart DEF DriverInit, DriverTypeOK

LEMMA DriverStep ==
  DriverTypeOK /\ ShotKeepsCourse /\ [DriverNext]_driverVars
    => DriverTypeOK' /\ ShotKeepsCourse'
<1> SUFFICES ASSUME DriverTypeOK, ShotKeepsCourse, [DriverNext]_driverVars
             PROVE  DriverTypeOK' /\ ShotKeepsCourse'
  OBVIOUS
<1>1. CASE SomeFrame
  <2>1. PICK pad \in Pads : DriverFrame(pad)
    BY <1>1 DEF SomeFrame
  <2>2. PICK enemyHit \in [Tanks -> BOOLEAN] : TankClock(pad, enemyHit)
    BY <2>1 DEF DriverFrame
  <2>3. trigger' \in [Tanks -> States]
    BY <2>1, TriggersStay DEF DriverFrame, DriverTypeOK
  <2> QED BY <2>2, <2>3, TankClockType, TankClockCourse DEF DriverTypeOK
<1>2. CASE DriverReset
  BY <1>2, TankResetKeeps DEF DriverReset, DriverTypeOK
<1>3. CASE UNCHANGED driverVars
  BY <1>3 DEF driverVars, tankVars, DriverTypeOK, TankTypeOK, ShotKeepsCourse
<1> QED BY <1>1, <1>2, <1>3 DEF DriverNext

-----------------------------------------------------------------------------
(* The inductive invariant of the tanks.                                   *)
THEOREM DriverInvariant == DriverSpec => [](DriverTypeOK /\ ShotKeepsCourse)
<1> QED BY DriverStart, DriverStep, PTL DEF DriverSpec

(* Positions never leave the coordinates and motions are single steps,     *)
(* whatever keys are held (ball.sv:193-942).                               *)
THEOREM DriverTypeCorrect == DriverSpec => []DriverTypeOK
<1> QED BY DriverInvariant, PTL

(* A bullet in flight has the velocity of the direction it was fired in    *)
(* (ball.sv:954-1077).                                                     *)
THEOREM CourseIsKept == DriverSpec => []ShotKeepsCourse
<1> QED BY DriverInvariant, PTL

(* Bullets fly straight at constant speed (ball.sv:1055-1127).             *)
THEOREM FlightIsStraight == DriverSpec => BulletsFlyStraight
<1> DEFINE Straight ==
      loaded' =>
        \A t \in Tanks, b \in Bullets :
          flag[t][b] /\ flag'[t][b] =>
            /\ bdir'[t][b] = bdir[t][b]
            /\ bpos'[t][b] = Moved(bpos[t][b], Scaled(BulletStep, Unit(bdir[t][b])))
<1>1. DriverTypeOK /\ ShotKeepsCourse /\ [DriverNext]_driverVars => [Straight]_driverVars
  <2> SUFFICES ASSUME DriverTypeOK, ShotKeepsCourse, DriverNext, loaded',
                      NEW t \in Tanks, NEW b \in Bullets, flag[t][b], flag'[t][b]
               PROVE  /\ bdir'[t][b] = bdir[t][b]
                      /\ bpos'[t][b] =
                           Moved(bpos[t][b], Scaled(BulletStep, Unit(bdir[t][b])))
    OBVIOUS
  <2>1. SomeFrame
    BY DEF DriverNext, DriverReset, TankReset
  <2> PICK pad \in Pads : DriverFrame(pad)
    BY <2>1 DEF SomeFrame
  <2>2. PICK enemyHit \in [Tanks -> BOOLEAN] : TankClock(pad, enemyHit)
    BY DEF DriverFrame
  <2>3. NextFlag(t, b, pad, enemyHit[t])
    BY <2>2 DEF TankClock
  <2>4. bpos'[t][b] = Moved(bpos[t][b], bmotion[t][b]) /\ bdir'[t][b] = bdir[t][b]
    BY <2>2, <2>3 DEF TankClock, NextBulletPos, NextBulletDir
  <2> QED BY <2>4 DEF ShotKeepsCourse
<1> QED BY <1>1, DriverInvariant, PTL DEF DriverSpec, BulletsFlyStraight

(* At most one pixel per frame (ball.sv:193-942).                          *)
THEOREM SpeedLimit == DriverSpec => OnePixelPerFrame
<1> DEFINE Limit ==
      loaded' =>
        \A t \in Tanks : \E m \in Units \cup {Still} : pos'[t] = Moved(pos[t], m)
<1>1. DriverTypeOK /\ [DriverNext]_driverVars => [Limit]_driverVars
  <2> SUFFICES ASSUME DriverTypeOK, DriverNext, loaded', NEW t \in Tanks
               PROVE  \E m \in Units \cup {Still} : pos'[t] = Moved(pos[t], m)
    OBVIOUS
  <2>1. SomeFrame
    BY DEF DriverNext, DriverReset, TankReset
  <2> PICK pad \in Pads : DriverFrame(pad)
    BY <2>1 DEF SomeFrame
  <2>2. pos'[t] = NextPos(t, pad)
    BY DEF DriverFrame, TankClock
  <2> QED BY <2>2, NextPosType DEF DriverTypeOK, TankTypeOK
<1> QED BY <1>1, DriverInvariant, PTL DEF DriverSpec, OnePixelPerFrame
=============================================================================
