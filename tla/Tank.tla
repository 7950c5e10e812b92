-------------------------------- MODULE Tank --------------------------------
(***************************************************************************)
(* The tanks and their bullets (tank in ball.sv, tank2 in ball2.sv).  A    *)
(* position is the pair <<x, y>> of a tank's upper left corner, a motion a *)
(* pair of steps; y grows downwards.  Every register is a function of the  *)
(* tank, the ones of bullets of the tank and the bullet.                   *)
(*                                                                         *)
(* All assignments to positions, motions and directions are non-blocking:  *)
(* a frame moves a tank by the motion of the frame before and only then    *)
(* looks where its keys point.  The flags of the bullets are assigned      *)
(* blocking: clearing and firing act within the same frame.                *)
(***************************************************************************)
EXTENDS KeyCounter, FiniteSets

CONSTANTS
  Modulus,       \* 2^(width of a coordinate)                 (1024 in the source)
  TankSize,      \* width and height of a tank                (32)
  Muzzle,        \* where in the tank a bullet waits          (16)
  BulletStep,    \* pixels a bullet flies per frame           (6)
  MapWidth,      \* cells in a row of the map, two pixels each (320)
  AddressSpace,  \* 2^(width of a map address)                (131072)
  Start,         \* start position of each tank
  Walls,         \* addresses set in the map of the tanks     (bitmap_rom)
  BulletWalls    \* addresses set in the map of the bullets   (bulletmap_rom)

ASSUME TankAssumption ==
  /\ Modulus \in Nat \ {0}
  /\ {TankSize, Muzzle, BulletStep, MapWidth} \subseteq Nat
  /\ AddressSpace \in Nat \ {0}
  /\ Start \in [Tanks -> (0..(Modulus - 1)) \X (0..(Modulus - 1))]

VARIABLES
  pos,        \* tank_X_Pos, tank_Y_Pos
  motion,     \* tank_X_Motion, tank_Y_Motion
  direction,  \* where the tank points
  bpos,       \* Bullet_X_Pos, Bullet_Y_Pos of each bullet
  bmotion,    \* Bullet_X_Motion, Bullet_Y_Motion
  bdir,       \* bullet_direction
  flag,       \* drawbullet_flag: is the bullet in flight?
  loaded      \* history: has there been a frame since power-up or the last reset?

tankVars == <<pos, motion, direction, bpos, bmotion, bdir, flag, loaded>>

Bullets == 1..Magazine
Directions == {"up", "left", "down", "right"}
Coordinates == 0..(Modulus - 1)
Still == <<0, 0>>

Unit(d) ==
  CASE d = "up" -> <<0, -1>>
    [] d = "left" -> <<-1, 0>>
    [] d = "down" -> <<0, 1>>
    [] d = "right" -> <<1, 0>>

Opposite(d) ==
  CASE d = "up" -> "down"
    [] d = "left" -> "right"
    [] d = "down" -> "up"
    [] d = "right" -> "left"

Scaled(k, m) == <<k * m[1], k * m[2]>>

(* One addition to a position register: the registers wrap.                *)
Moved(p, m) == <<(p[1] + m[1]) % Modulus, (p[2] + m[2]) % Modulus>>

(* The registers of bullets 2 and 3, and the directions, are not reset;    *)
(* without power-up values registers come up as zero, which is "up", the   *)
(* position of a tank possibly as the value it is reset to.                *)
TankInit ==
  /\ pos \in {f \in [Tanks -> {Still} \cup {Start[t] : t \in Tanks}] :
                \A t \in Tanks : f[t] \in {Still, Start[t]}}
  /\ motion = [t \in Tanks |-> Still]
  /\ direction = [t \in Tanks |-> "up"]
  /\ bpos = [t \in Tanks |-> [b \in Bullets |-> Still]]
  /\ bmotion = [t \in Tanks |-> [b \in Bullets |-> Still]]
  /\ bdir = [t \in Tanks |-> [b \in Bullets |-> "up"]]
  /\ flag = [t \in Tanks |-> [b \in Bullets |-> FALSE]]
  /\ loaded = FALSE

-----------------------------------------------------------------------------
(* The keys of the players.                                                *)

(* The steering codes a tank's always block looks for in a register.       *)
Steering1 == [k \in {26, 4, 22, 7} |->
                CASE k = 26 -> "up" [] k = 4 -> "left"
                  [] k = 22 -> "down" [] k = 7 -> "right"]

Steering2 == [k \in {82, 80, 81, 79} |->
                CASE k = 82 -> "up" [] k = 80 -> "left"
                  [] k = 81 -> "down" [] k = 79 -> "right"]

(* In keycode2 three of the codes are written in hexadecimal (8'h82,       *)
(* 8'h81, 8'h79), which are other keys.                                    *)
Steering2InKeycode2 == [k \in {130, 80, 129, 121} |->
                          CASE k = 130 -> "up" [] k = 80 -> "left"
                            [] k = 129 -> "down" [] k = 121 -> "right"]

Steering(t, slot) ==
  IF t = 1 THEN Steering1
  ELSE IF slot = 2 THEN Steering2InKeycode2
  ELSE Steering2

(* The registers that hold a steering key of the tank, and where it points.*)
MoveSlots(t, pad) == {i \in Slots : pad[i] \in DOMAIN Steering(t, i)}
Wish(t, pad, i) == Steering(t, i)[pad[i]]

-----------------------------------------------------------------------------
(* Where the tank touches the map: the address of the cell under a point,  *)
(* computed in 32 bits and cut to the width of the address, and the two    *)
(* corners in front of the tank (C1, C2 above, C3, C4 below).              *)
Address(x, y) == ((x \div 2) + (y \div 2) * MapWidth) % AddressSpace

Corner(t, dx, dy) == Address(pos[t][1] + dx * TankSize, pos[t][2] + dy * TankSize)

FrontCorners(t) ==
  CASE direction[t] = "up" -> {Corner(t, 0, 0), Corner(t, 1, 0)}
    [] direction[t] = "left" -> {Corner(t, 0, 1), Corner(t, 0, 0)}
    [] direction[t] = "down" -> {Corner(t, 0, 1), Corner(t, 1, 1)}
    [] direction[t] = "right" -> {Corner(t, 1, 1), Corner(t, 1, 0)}

AtWall(t) == FrontCorners(t) \cap Walls # {}

(* up_flag, left_flag, down_flag, right_flag: only the direction the tank  *)
(* points in is ever blocked.                                              *)
Blocked(t, d) == d = direction[t] /\ AtWall(t)

FreeSlots(t, pad) == {i \in MoveSlots(t, pad) : ~Blocked(t, Wish(t, pad, i))}

Last(slots) == CHOOSE i \in slots : \A j \in slots : j <= i

(* A key in a free direction moves the tank by its OLD motion; several of  *)
(* them move it once.                                                      *)
NextPosPerKey(t, pad) ==             \* mutant: every key moves the tank
  Moved(pos[t], Scaled(Cardinality(FreeSlots(t, pad)), motion[t]))

NextPos(t, pad) ==
  IF FreeSlots(t, pad) = {} THEN pos[t] ELSE Moved(pos[t], motion[t])

NextDirection(t, pad) ==
  IF FreeSlots(t, pad) = {} THEN direction[t]
  ELSE Wish(t, pad, Last(FreeSlots(t, pad)))

(* The last register with a steering key decides; a blocked key turns the  *)
(* motion back.                                                            *)
NextMotionOneAxis(t, pad) ==         \* mutant: a key sets the motion of its axis only
  IF MoveSlots(t, pad) = {} THEN motion[t]
  ELSE LET d == Wish(t, pad, Last(MoveSlots(t, pad)))
           u == Unit(IF Blocked(t, d) THEN Opposite(d) ELSE d)
       IN  IF u[1] # 0 THEN <<u[1], motion[t][2]>> ELSE <<motion[t][1], u[2]>>

NextMotion(t, pad) ==
  IF MoveSlots(t, pad) = {} THEN motion[t]
  ELSE LET d == Wish(t, pad, Last(MoveSlots(t, pad)))
       IN  IF Blocked(t, d) THEN Unit(Opposite(d)) ELSE Unit(d)

-----------------------------------------------------------------------------
(* The bullets.  `enemyHit' is the input tank2gaya (tank1gaya of tank 2):  *)
(* the other tank is dead or has a bullet of this one inside.              *)
BulletX(t, b) == (bpos[t][b][1] + Muzzle) % Modulus
BulletY(t, b) == (bpos[t][b][2] + Muzzle) % Modulus

BulletInWall(t, b) == Address(BulletX(t, b) + 1, BulletY(t, b) + 1) \in BulletWalls

Fired(t, b, pad) == FireKeyDown(t, pad) /\ Count(t) = b

NextFlag(t, b, pad, enemyHit) ==
  \/ flag[t][b] /\ ~BulletInWall(t, b) /\ ~enemyHit
  \/ Fired(t, b, pad)

NextBulletMotion(t, b, pad) ==
  IF Fired(t, b, pad) THEN Scaled(BulletStep, Unit(bdir[t][b])) ELSE bmotion[t][b]

(* A bullet in flight moves by its OLD motion, any other sits in the tank. *)
NextBulletPosLeft(t, b, inFlight) ==     \* mutant: a spent bullet is not taken back
  IF flag[t][b] THEN Moved(bpos[t][b], bmotion[t][b]) ELSE bpos[t][b]

NextBulletPos(t, b, inFlight) ==
  IF inFlight THEN Moved(bpos[t][b], bmotion[t][b]) ELSE pos[t]

NextBulletDirAlways(t, b, inFlight) ==   \* mutant: turns with the tank in flight
  direction[t]

NextBulletDir(t, b, inFlight) ==
  IF inFlight THEN bdir[t][b] ELSE direction[t]

(* The posedge of the frame clock: `pad' are the keycode registers.        *)
TankClock(pad, enemyHit) ==
  LET inFlight(t, b) == NextFlag(t, b, pad, enemyHit[t]) IN
  /\ pos' = [t \in Tanks |-> NextPos(t, pad)]
  /\ motion' = [t \in Tanks |-> NextMotion(t, pad)]
  /\ direction' = [t \in Tanks |-> NextDirection(t, pad)]
  /\ flag' = [t \in Tanks |-> [b \in Bullets |-> inFlight(t, b)]]
  /\ bmotion' = [t \in Tanks |-> [b \in Bullets |-> NextBulletMotion(t, b, pad)]]
  /\ bpos' = [t \in Tanks |-> [b \in Bullets |-> NextBulletPos(t, b, inFlight(t, b))]]
  /\ bdir' = [t \in Tanks |-> [b \in Bullets |-> NextBulletDir(t, b, inFlight(t, b))]]
  /\ loaded' = TRUE

(* The push button KEY0, an asynchronous reset: back to the start, bullets *)
(* disarmed.  Only the motion of bullet 1 is cleared, no bullet is moved.  *)
TankReset ==
  /\ pos' = [t \in Tanks |-> Start[t]]
  /\ motion' = [t \in Tanks |-> Still]
  /\ direction' = [t \in Tanks |-> "up"]
  /\ flag' = [t \in Tanks |-> [b \in Bullets |-> FALSE]]
  /\ bmotion' = [t \in Tanks |-> [bmotion[t] EXCEPT ![1] = Still]]
  /\ loaded' = FALSE
  /\ UNCHANGED <<bpos, bdir>>

-----------------------------------------------------------------------------
Positions == Coordinates \X Coordinates
Units == {Unit(d) : d \in Directions}
Velocities == {Scaled(BulletStep, u) : u \in Units} \cup {Still}

TankTypeOK ==
  /\ pos \in [Tanks -> Positions]
  /\ motion \in [Tanks -> Units \cup {Still}]
  /\ direction \in [Tanks -> Directions]
  /\ bpos \in [Tanks -> [Bullets -> Positions]]
  /\ bmotion \in [Tanks -> [Bullets -> Velocities]]
  /\ bdir \in [Tanks -> [Bullets -> Directions]]
  /\ flag \in [Tanks -> [Bullets -> BOOLEAN]]
  /\ loaded \in BOOLEAN

(* A bullet in flight has the velocity of the direction it was fired in,   *)
(* whatever the tank does meanwhile, whether or not it was fired again in  *)
(* flight, and although the velocity register still holds the previous     *)
(* shot when the flag goes up (ball.sv:957-985, 1069-1077).                *)
ShotKeepsCourse ==
  \A t \in Tanks, b \in Bullets :
    flag[t][b] => bmotion[t][b] = Scaled(BulletStep, Unit(bdir[t][b]))
=============================================================================
