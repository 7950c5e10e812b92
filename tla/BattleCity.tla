----------------------------- MODULE BattleCity -----------------------------
(***************************************************************************)
(* The game: the top level of finalproject.sv, which wires the tanks and   *)
(* their triggers, the collision handler, the health bars and the game     *)
(* state machine to one frame clock, to the four keycode registers the     *)
(* processor writes and to the push button KEY0.                           *)
(***************************************************************************)
EXTENDS Tank, Health, GameStates

CONSTANT Inputs    \* what the processor may write: Inputs[i], keys for register i

ASSUME InputsAssumption == DOMAIN Inputs = Slots

(* A bullet that waits is inside its tank (16 of 32 pixels).               *)
ASSUME MuzzleAssumption == Muzzle <= TankSize

VARIABLES
  pad,      \* the keycode registers
  key0      \* is the push button KEY0 down?

battleVars == <<trigger, tankVars, healthVars, state, pad, key0>>

Enemy(t) == 3 - t

-----------------------------------------------------------------------------
(* collision_handler: a bullet, in flight or not, is strictly inside the   *)
(* box of the tank.  Corners and bullets are computed in the width of a    *)
(* coordinate.                                                             *)
Inside(t, b) ==
  LET x == BulletX(Enemy(t), b)
      y == BulletY(Enemy(t), b)
      right == (pos[t][1] + TankSize) % Modulus
      below == (pos[t][2] + TankSize) % Modulus
  IN  pos[t][1] < x /\ x < right /\ pos[t][2] < y /\ y < below

Collision == [t \in Tanks |-> \E b \in Bullets : Inside(t, b)]

(* The inputs tank2gaya of tank 1 and tank1gaya of tank 2.                 *)
EnemyHitDeadOnly ==                \* mutant: a bullet flies on through its target
  [t \in Tanks |-> tank_dead[Enemy(t)]]

EnemyHit == [t \in Tanks |-> tank_dead[Enemy(t)] \/ Collision[Enemy(t)]]

NoShields == [t \in Tanks |-> FALSE]     \* shield1_status, shield2_status

BattleInit ==
  /\ CounterInit /\ TankInit /\ HealthInit /\ GameStatesInit
  /\ pad = [i \in Slots |-> NoKey]
  /\ key0 = FALSE

(* A rising edge of VGA_VS: every register moves, on the values before.    *)
BattleEdgeCrossed(reset) ==        \* mutant: tank_1_dead and tank_2_dead swapped
  /\ TankClock(pad, EnemyHit)
  /\ CounterClock(GameReset(pad[0]), [t \in Tanks |-> FireKeyDown(t, pad)])
  /\ HealthClock(GameReset(pad[0]), NoShields, Collision)
  /\ GameStatesClock(reset, pad[0], [t \in Tanks |-> tank_dead[Enemy(t)]])
  /\ UNCHANGED pad

BattleEdge(reset) ==
  /\ TankClock(pad, EnemyHit)
  /\ CounterClock(GameReset(pad[0]), [t \in Tanks |-> FireKeyDown(t, pad)])
  /\ HealthClock(GameReset(pad[0]), NoShields, Collision)
  /\ GameStatesClock(reset, pad[0], tank_dead)
  /\ UNCHANGED pad

BattleFrame == ~key0 /\ BattleEdge(key0) /\ UNCHANGED key0

(* KEY0 resets the tanks and holds VGA_VS low; see module Round.           *)
PressKEY0 ==
  /\ ~key0
  /\ key0' = TRUE
  /\ TankReset
  /\ UNCHANGED <<trigger, healthVars, state, pad>>

ReleaseKEY0 == key0 /\ key0' = FALSE /\ BattleEdge(key0')

(* One bus write of setKeycode.                                            *)
WriteKeycode ==
  /\ \E i \in Slots : \E k \in Inputs[i] \ {pad[i]} : pad' = [pad EXCEPT ![i] = k]
  /\ UNCHANGED <<trigger, tankVars, healthVars, state, key0>>

BattleNext == BattleFrame \/ PressKEY0 \/ ReleaseKEY0 \/ WriteKeycode

BattleSpec == BattleInit /\ [][BattleNext]_battleVars /\ WF_battleVars(BattleFrame)

-----------------------------------------------------------------------------
(* The tanks are further apart than a pixel, on the ring of coordinates.   *)
Apart ==
  \A t, u \in Tanks : t # u =>
    \E i \in {1, 2} :
      (pos[t][i] - pos[u][i]) % Modulus \in (TankSize + 2)..(Modulus - TankSize - 2)

(* The collision handler does not look at the flags of the bullets.  All   *)
(* the same a tank is only hit by a bullet in flight, as long as the tanks *)
(* are apart: the bullets that wait are inside their own tank, one frame   *)
(* behind it (collision_handler.sv:55, ball.sv:1061-1065).                 *)
HitsAreShots ==
  loaded /\ Apart =>
    \A t \in Tanks, b \in Bullets : Inside(t, b) => flag[Enemy(t)][b]

(* The frame that registers a hit on a tank ends the volley that hit it:   *)
(* while the hit is pending, the only bullet the enemy can have in flight  *)
(* is one fired at that very frame (health.sv:14, finalproject.sv:261,     *)
(* ball.sv:165-178), so a bullet costs its target one hit.                 *)
HitEndsVolley ==
  \A t \in Tanks, b \in Bullets :
    posedge_detected[t] /\ flag[Enemy(t)][b] => trigger[Enemy(t)] = Idle(b)

(* Why hits are shots: a bullet that is not in flight is where its tank    *)
(* was one step ago.                                                       *)
WaitingBulletsFollow ==
  loaded => \A t \in Tanks, b \in Bullets :
    ~flag[t][b] => \E m \in Units \cup {Still} : pos[t] = Moved(bpos[t][b], m)

(* The inductive invariant of the proofs in BattleProofs.                  *)
BattleInv ==
  /\ trigger \in [Tanks -> States]
  /\ TankTypeOK
  /\ HealthInv
  /\ WaitingBulletsFollow
  /\ HitEndsVolley

(* The game implements the round of module Round, and with it the abstract *)
(* match of module Match: the inputs of the round are the collision        *)
(* handler and what the state machine makes of keycode register 0.         *)
GameKey == IF pad[0] \in GameKeys THEN pad[0] ELSE NoKey

R == INSTANCE Round WITH key <- GameKey, collision <- Collision

ImplementsRound == R!RoundSafety
=============================================================================
