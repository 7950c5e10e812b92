---------------------------- MODULE BattleProofs ----------------------------
(***************************************************************************)
(* Proofs about the whole game, for every size of the ground, of the       *)
(* magazine and of the bars, and for every input.  BattleInv is inductive; *)
(* the game implements the round of module Round and, with the keycode     *)
(* registers it can see, the tanks of module Driver.                       *)
(***************************************************************************)
EXTENDS BattleCity, TankProofs, HealthProofs

(* The registers keep one code each.                                       *)
Codes == {NoKey} \cup UNION {Inputs[i] : i \in Slots}

PadOK == pad \in [Slots -> Codes]

LEMMA PadInvariant == BattleInit /\ [][BattleNext]_battleVars => []PadOK
<1> USE DEF Slots, Codes, PadOK
<1>1. BattleInit => PadOK
  BY DEF BattleInit
<1>2. PadOK /\ [BattleNext]_battleVars => PadOK'
  <2> SUFFICES ASSUME PadOK, [BattleNext]_battleVars
               PROVE  PadOK'
    OBVIOUS
  <2>1. CASE BattleFrame
    BY <2>1 DEF BattleFrame, BattleEdge
  <2>2. CASE PressKEY0
    BY <2>2 DEF PressKEY0
  <2>3. CASE ReleaseKEY0
    BY <2>3 DEF ReleaseKEY0, BattleEdge
  <2>4. CASE WriteKeycode
    <3>1. PICK i \in Slots : \E k \in Inputs[i] \ {pad[i]} : pad' = [pad EXCEPT ![i] = k]
      BY <2>4 DEF WriteKeycode
    <3>2. PICK k \in Inputs[i] : pad' = [pad EXCEPT ![i] = k]
      BY <3>1
    <3>3. k \in Codes
      BY <3>2
    <3> QED BY <3>2, <3>3
  <2>5. CASE UNCHANGED battleVars
    BY <2>5 DEF battleVars
  <2> QED BY <2>1, <2>2, <2>3, <2>4, <2>5 DEF BattleNext
<1> QED BY <1>1, <1>2, PTL

-----------------------------------------------------------------------------
(* The state machine and the game_reset wire see no more of register 0     *)
(* than the game key it holds.                                             *)
LEMMA KeyViews ==
  /\ GameKey \in GameKeys
  /\ GameReset(pad[0]) = GameReset(GameKey)
  /\ \A reset, dead : GameStatesClock(reset, pad[0], dead) =
                      GameStatesClock(reset, GameKey, dead)
<1> USE DEF GameKey, GameKeys, NoKey, MKey, OKey, YKey, EnterKey
<1>1. GameKey \in GameKeys
  OBVIOUS
<1>2. GameReset(pad[0]) = GameReset(GameKey)
  BY DEF GameReset
<1>3. ASSUME NEW reset, NEW dead
      PROVE  GameStatesClock(reset, pad[0], dead) = GameStatesClock(reset, GameKey, dead)
  <2>1. CASE pad[0] \in GameKeys
    BY <2>1
  <2>2. CASE pad[0] \notin GameKeys
    <3>1. \A key \in {pad[0], GameKey} : key # MKey /\ key # YKey /\ key # EnterKey
      BY <2>2
    <3> HIDE DEF GameKey, GameKeys, NoKey, MKey, OKey, YKey, EnterKey
    <3>2. NextState(pad[0], dead) = NextState(GameKey, dead)
      BY <3>1 DEF NextState
    <3> QED BY <3>1, <3>2 DEF GameStatesClock
  <2> QED BY <2>1, <2>2
<1> QED BY <1>1, <1>2, <1>3

(* The copies of the operators in the round are the game's own.            *)
LEMMA SameOperators ==
  /\ R!GameKeys = GameKeys
  /\ R!NoKey = NoKey
  /\ R!HealthInit = HealthInit
  /\ R!GameStatesInit = GameStatesInit
  /\ R!NoShield = NoShields
  /\ R!healthVars = healthVars
  /\ \A key : R!GameReset(key) = GameReset(key)
<1>1. R!GameKeys = GameKeys /\ R!NoKey = NoKey
  BY DEF R!GameKeys, GameKeys, R!NoKey, NoKey, R!MKey, MKey, R!OKey, OKey,
         R!YKey, YKey, R!EnterKey, EnterKey
<1>2. R!HealthInit = HealthInit /\ R!GameStatesInit = GameStatesInit
  BY DEF R!HealthInit, HealthInit, R!GameStatesInit, GameStatesInit
<1>3. R!NoShield = NoShields /\ R!healthVars = healthVars
  BY DEF R!NoShield, NoShields, R!healthVars, healthVars
<1>4. \A key : R!GameReset(key) = GameReset(key)
  BY DEF R!GameReset, GameReset, R!MKey, MKey, R!OKey, OKey, R!YKey, YKey
<1> QED BY <1>1, <1>2, <1>3, <1>4

LEMMA SameHealthClock ==
  ASSUME NEW reset, NEW shield, NEW wire, HealthClock(reset, shield, wire)
  PROVE  R!HealthClock(reset, shield, wire)
BY DEF HealthClock, EdgeDetector, NextHealth, NextDead, MaxHealth,
       R!HealthClock, R!EdgeDetector, R!NextHealth, R!NextDead, R!MaxHealth

LEMMA SameStatesClock ==
  ASSUME NEW reset, NEW key, NEW dead, GameStatesClock(reset, key, dead)
  PROVE  R!GameStatesClock(reset, key, dead)
<1>1. R!Explosion = Explosion /\ R!DeathScreens = DeathScreens
  BY DEF R!Explosion, Explosion, R!DeathScreens, DeathScreens
<1>2. R!MKey = MKey /\ R!YKey = YKey /\ R!EnterKey = EnterKey
  BY DEF R!MKey, MKey, R!YKey, YKey, R!EnterKey, EnterKey
<1>3. R!NextExplosion(state) = NextExplosion(state) /\ R!Verdict(dead) = Verdict(dead)
  BY DEF R!NextExplosion, NextExplosion, R!Verdict, Verdict
<1>4. R!NextState(key, dead) = NextState(key, dead)
  BY <1>1, <1>2, <1>3 DEF R!NextState, NextState
<1> QED BY <1>2, <1>4 DEF GameStatesClock, R!GameStatesClock

(* The collision wires always carry a value.                               *)
LEMMA WiresAreBoolean == Collision \in [Tanks -> BOOLEAN]
BY DEF Collision

(* A frame of the game is a frame of the round.                            *)
LEMMA EdgeIsEdge ==
  ASSUME NEW reset, BattleEdge(reset)
  PROVE  R!Edge(reset)
<1>1. R!HealthClock(R!GameReset(GameKey), R!NoShield, Collision)
  <2>1. HealthClock(GameReset(GameKey), NoShields, Collision)
    BY KeyViews DEF BattleEdge
  <2> QED BY <2>1, SameHealthClock, SameOperators
<1>2. R!GameStatesClock(reset, GameKey, tank_dead)
  <2>1. GameStatesClock(reset, GameKey, tank_dead)
    BY KeyViews DEF BattleEdge
  <2> QED BY <2>1, SameStatesClock
<1>3. Collision' \in [Tanks -> BOOLEAN]
  BY DEF Collision
<1>4. UNCHANGED GameKey
  BY DEF BattleEdge, GameKey
<1> QED BY <1>1, <1>2, <1>3, <1>4 DEF R!Edge

-----------------------------------------------------------------------------
(* The game implements the round of module Round, and so the round's       *)
(* safety properties hold of the game (finalproject.sv:232-349).           *)
THEOREM BattleImplementsRound == BattleSpec => ImplementsRound
<1>1. BattleInit => R!RoundInit
  BY WiresAreBoolean, SameOperators DEF BattleInit, R!RoundInit, GameKey, Slots
<1>2. PadOK /\ [BattleNext]_battleVars => [R!RoundNext]_(R!roundVars)
  <2> SUFFICES ASSUME PadOK, [BattleNext]_battleVars
               PROVE  R!RoundNext \/ UNCHANGED R!roundVars
    OBVIOUS
  <2>1. CASE BattleFrame
    <3>1. R!Edge(key0)
      BY <2>1, EdgeIsEdge DEF BattleFrame
    <3> QED BY <2>1, <3>1 DEF BattleFrame, R!Frame, R!RoundNext
  <2>2. CASE PressKEY0
    <3>1. Collision' \in [Tanks -> BOOLEAN]
      BY DEF Collision
    <3>2. UNCHANGED GameKey
      BY <2>2 DEF PressKEY0, GameKey
    <3> QED BY <2>2, <3>1, <3>2 DEF PressKEY0, R!PressKEY0, R!RoundNext, healthVars, R!healthVars
  <2>3. CASE ReleaseKEY0
    <3>1. R!Edge(key0')
      BY <2>3, EdgeIsEdge DEF ReleaseKEY0
    <3> QED BY <2>3, <3>1 DEF ReleaseKEY0, R!ReleaseKEY0, R!RoundNext
  <2>4. CASE WriteKeycode
    <3>1. UNCHANGED <<healthVars, state, key0, Collision>>
      BY <2>4 DEF WriteKeycode, tankVars, Collision, Inside, BulletX, BulletY
    <3>2. GameKey' \in GameKeys
      BY DEF GameKey, GameKeys
    <3>3. CASE GameKey' = GameKey
      BY <3>1, <3>3 DEF R!roundVars, healthVars, R!healthVars
    <3>4. CASE GameKey' # GameKey
      BY <3>1, <3>2, <3>4, SameOperators
         DEF R!WriteKeycode, R!RoundNext, healthVars, R!healthVars
    <3> QED BY <3>3, <3>4
  <2>5. CASE UNCHANGED battleVars
    <3>1. UNCHANGED <<Collision, GameKey>>
      BY <2>5 DEF battleVars, tankVars, Collision, Inside, BulletX, BulletY, GameKey
    <3> QED BY <2>5, <3>1 DEF battleVars, R!roundVars, healthVars, R!healthVars
  <2> QED BY <2>1, <2>2, <2>3, <2>4, <2>5 DEF BattleNext
<1> QED BY <1>1, <1>2, PadInvariant, PTL DEF BattleSpec, ImplementsRound, R!RoundSafety

-----------------------------------------------------------------------------
(* Hits are shots.  First the arithmetic of one coordinate on a ring of    *)
(* size M, for a tank of size S.                                           *)
(* What is at most S away from 0 is so in both directions.                 *)
LEMMA ShortOnTheRing ==
  ASSUME NEW M \in Nat \ {0}, NEW S \in Nat, NEW v \in Int, NEW k \in Int,
         -S <= v, v <= S
  PROVE  (v + k * M) % M \notin (S + 2)..(M - S - 2)
<1>1. PICK j \in Int : (v + k * M) % M = v + k * M - j * M
  <2>1. (v + k * M) \div M \in Int
    OBVIOUS
  <2>2. (v + k * M) % M = v + k * M - ((v + k * M) \div M) * M
    OBVIOUS
  <2> QED BY <2>1, <2>2
<1> DEFINE n == k - j
<1>2. n \in Int /\ (v + k * M) % M = v + n * M
  BY <1>1
<1> HIDE DEF n
<1>0. n \in Int
  BY <1>2
<1>3. CASE n <= 0
  <2>1. n * M <= 0
    BY <1>0, <1>3
  <2> QED BY <1>2, <2>1
<1>4. CASE n >= 1
  <2>1. n * M >= M
    BY <1>0, <1>4
  <2> QED BY <1>2, <2>1
<1> QED BY <1>2, <1>3, <1>4

(* p is a step m away from c, and c + w is strictly within q and q + S.    *)
LEMMA InsideIsNear ==
  ASSUME NEW M \in Nat \ {0}, NEW S \in Nat, NEW w \in Nat, w <= S,
         NEW q \in Nat, NEW p \in Nat, NEW c \in Nat, NEW m \in {-1, 0, 1},
         p = (c + m) % M, q < (c + w) % M, (c + w) % M < (q + S) % M
  PROVE  (q - p) % M \notin (S + 2)..(M - S - 2)
<1>1. PICK i \in Int : p = c + m - i * M
  <2>1. (c + m) \div M \in Int
    OBVIOUS
  <2>2. (c + m) % M = c + m - ((c + m) \div M) * M
    OBVIOUS
  <2> QED BY <2>1, <2>2
<1>2. PICK j \in Int : (c + w) % M = c + w - j * M
  <2>1. (c + w) \div M \in Int
    OBVIOUS
  <2>2. (c + w) % M = c + w - ((c + w) \div M) * M
    OBVIOUS
  <2> QED BY <2>1, <2>2
<1>3. (q + S) % M <= q + S
  OBVIOUS
<1> DEFINE x == (c + w) % M
           k == i - j
           v == w - m - (x - q)
<1>4. x \in Int /\ 0 < x - q /\ x - q < S
  <2>1. x \in Int /\ (q + S) % M \in Int
    OBVIOUS
  <2> QED BY <1>3, <2>1
<1>5. v \in Int /\ -S <= v /\ v <= S
  BY <1>4
<1>6. k \in Int /\ q - p = v + k * M
  BY <1>1, <1>2
<1> HIDE DEF v, k
<1> QED BY <1>5, <1>6, ShortOnTheRing

LEMMA StepsAreShort ==
  ASSUME NEW m \in Units \cup {Still}
  PROVE  m[1] \in {-1, 0, 1} /\ m[2] \in {-1, 0, 1}
BY DEF Units, Unit, Directions, Still

LEMMA EnemyIsATank ==
  ASSUME NEW t \in Tanks
  PROVE  Enemy(t) \in Tanks /\ Enemy(t) # t /\ Enemy(Enemy(t)) = t
BY TwoTanks DEF Enemy

LEMMA WaitingBulletsMiss ==
  ASSUME TankTypeOK, WaitingBulletsFollow, loaded, Apart,
         NEW t \in Tanks, NEW b \in Bullets, Inside(t, b)
  PROVE  flag[Enemy(t)][b]
<1> DEFINE u == Enemy(t)
<1>1. u \in Tanks /\ u # t
  BY EnemyIsATank
<1> SUFFICES ASSUME ~flag[u][b] PROVE FALSE
  OBVIOUS
<1>2. PICK m \in Units \cup {Still} : pos[u] = Moved(bpos[u][b], m)
  BY <1>1 DEF WaitingBulletsFollow
<1>3. m[1] \in {-1, 0, 1} /\ m[2] \in {-1, 0, 1}
  BY StepsAreShort
<1>4. pos[t] \in Positions /\ pos[u] \in Positions /\ bpos[u][b] \in Positions
  BY <1>1 DEF TankTypeOK
<1>5. /\ pos[t][1] \in Nat /\ pos[u][1] \in Nat /\ bpos[u][b][1] \in Nat
      /\ pos[t][2] \in Nat /\ pos[u][2] \in Nat /\ bpos[u][b][2] \in Nat
  BY <1>4, TankAssumption DEF Positions, Coordinates
<1>6. /\ pos[u][1] = (bpos[u][b][1] + m[1]) % Modulus
      /\ pos[u][2] = (bpos[u][b][2] + m[2]) % Modulus
  BY <1>2 DEF Moved
<1>7. Modulus \in Nat \ {0} /\ TankSize \in Nat /\ Muzzle \in Nat /\ Muzzle <= TankSize
  BY TankAssumption, MuzzleAssumption
<1>8. /\ pos[t][1] < (bpos[u][b][1] + Muzzle) % Modulus
      /\ (bpos[u][b][1] + Muzzle) % Modulus < (pos[t][1] + TankSize) % Modulus
      /\ pos[t][2] < (bpos[u][b][2] + Muzzle) % Modulus
      /\ (bpos[u][b][2] + Muzzle) % Modulus < (pos[t][2] + TankSize) % Modulus
  BY DEF Inside, BulletX, BulletY
<1>9. (pos[t][1] - pos[u][1]) % Modulus \notin (TankSize + 2)..(Modulus - TankSize - 2)
  BY <1>3, <1>5, <1>6, <1>7, <1>8, InsideIsNear
<1>10. (pos[t][2] - pos[u][2]) % Modulus \notin (TankSize + 2)..(Modulus - TankSize - 2)
  BY <1>3, <1>5, <1>6, <1>7, <1>8, InsideIsNear
<1> QED BY <1>1, <1>9, <1>10 DEF Apart

-----------------------------------------------------------------------------
(* The inductive invariant.                                                *)
LEMMA BattleStart == BattleInit => BattleInv
<1> SUFFICES ASSUME BattleInit PROVE BattleInv
  OBVIOUS
<1>1. trigger \in [Tanks -> States] /\ TankTypeOK /\ HealthInv
  BY TriggersStart, TankStart, HealthStart DEF BattleInit
<1>2. WaitingBulletsFollow
  BY DEF BattleInit, TankInit, WaitingBulletsFollow
<1>3. HitEndsVolley
  BY DEF BattleInit, HealthInit, HitEndsVolley
<1> QED BY <1>1, <1>2, <1>3 DEF BattleInv

(* The frame after which a bullet waits takes it to where its tank was.    *)
LEMMA FrameTakesBulletsBack ==
  ASSUME TankTypeOK, NEW enemyHit, TankClock(pad, enemyHit)
  PROVE  WaitingBulletsFollow'
<1> SUFFICES ASSUME NEW t \in Tanks, NEW b \in Bullets, ~flag'[t][b]
             PROVE  \E m \in Units \cup {Still} : pos'[t] = Moved(bpos'[t][b], m)
  BY DEF WaitingBulletsFollow
<1>1. ~NextFlag(t, b, pad, enemyHit[t])
  BY DEF TankClock
<1>2. bpos'[t][b] = pos[t]
  BY <1>1 DEF TankClock, NextBulletPos
<1>3. pos'[t] = NextPos(t, pad)
  BY DEF TankClock
<1> QED BY <1>2, <1>3, NextPosType DEF TankTypeOK

(* The frame that raises a pending hit disarms every bullet of the enemy   *)
(* but one that is fired at this frame.                                    *)
LEMMA FrameEndsVolley ==
  ASSUME BattleInv, NEW reset, BattleEdge(reset)
  PROVE  HitEndsVolley'
<1> SUFFICES ASSUME NEW t \in Tanks, NEW b \in Bullets,
                    posedge_detected'[t], flag'[Enemy(t)][b]
             PROVE  trigger'[Enemy(t)] = Idle(b)
  BY DEF HitEndsVolley, Enemy
<1> DEFINE u == Enemy(t)
<1>1. u \in Tanks /\ Enemy(u) = t
  BY EnemyIsATank
<1>2. EdgeDetector(t, GameReset(pad[0]), Collision[t])
  BY DEF BattleEdge, HealthClock
<1>3. ~GameReset(pad[0]) /\ Collision[t]
  <2>1. health[t] = 0 => ~posedge_detected[t]
    BY DEF BattleInv, HealthInv, NoHitPendingOnEmpty
  <2> QED BY <1>2, <2>1 DEF EdgeDetector
<1>4. EnemyHit[u]
  BY <1>1, <1>3 DEF EnemyHit
<1>5. NextFlag(u, b, pad, EnemyHit[u])
  BY <1>1 DEF BattleEdge, TankClock
<1>6. FireKeyDown(u, pad) /\ Count(u) = b
  BY <1>4, <1>5 DEF NextFlag, Fired
<1>7. trigger[u].mode = "count" /\ trigger[u].bullet = b
  <2>1. b # 0
    BY DEF Bullets
  <2> QED BY <1>6, <2>1 DEF Count
<1>8. trigger'[u] = NextTrigger(u, FireKeyDown(u, pad))
  BY <1>1, <1>3 DEF BattleEdge, CounterClock
<1> QED BY <1>6, <1>7, <1>8 DEF NextTrigger, AfterCount

LEMMA EdgeKeepsInvariant ==
  ASSUME BattleInv, NEW reset, BattleEdge(reset)
  PROVE  BattleInv'
<1>1. trigger' \in [Tanks -> States]
  BY TriggersStay DEF BattleEdge, BattleInv
<1>2. TankTypeOK'
  BY TankClockType DEF BattleEdge, BattleInv
<1>3. HealthInv'
  <2>1. GameReset(pad[0]) \in BOOLEAN
    BY DEF GameReset
  <2>2. NoShields \in [Tanks -> BOOLEAN]
    BY DEF NoShields
  <2> QED BY <2>1, <2>2, WiresAreBoolean, HealthClockInv DEF BattleEdge, BattleInv
<1>4. WaitingBulletsFollow'
  BY FrameTakesBulletsBack DEF BattleEdge, BattleInv
<1>5. HitEndsVolley'
  BY FrameEndsVolley
<1> QED BY <1>1, <1>2, <1>3, <1>4, <1>5 DEF BattleInv

LEMMA RestKeepsInvariant ==
  ASSUME BattleInv, UNCHANGED <<trigger, tankVars, healthVars>>
  PROVE  BattleInv'
<1> USE DEF tankVars, healthVars
<1>1. trigger' \in [Tanks -> States] /\ TankTypeOK'
  BY DEF BattleInv, TankTypeOK
<1>2. HealthInv'
  BY DEF BattleInv, HealthInv, HealthTypeOK, NoHitPendingOnEmpty, DeadOnlyWhenEmpty,
         PendingHitSeen
<1>3. WaitingBulletsFollow' /\ HitEndsVolley'
  BY DEF BattleInv, WaitingBulletsFollow, HitEndsVolley, Enemy
<1> QED BY <1>1, <1>2, <1>3 DEF BattleInv

LEMMA ResetKeepsInvariant ==
  ASSUME BattleInv, PressKEY0
  PROVE  BattleInv'
<1>1. trigger' \in [Tanks -> States] /\ TankTypeOK'
  BY TankResetKeeps DEF PressKEY0, BattleInv
<1>2. HealthInv'
  BY DEF PressKEY0, healthVars, BattleInv, HealthInv, HealthTypeOK, NoHitPendingOnEmpty,
         DeadOnlyWhenEmpty, PendingHitSeen
<1>3. WaitingBulletsFollow'
  BY DEF PressKEY0, TankReset, WaitingBulletsFollow
<1>4. HitEndsVolley'
  <2>1. \A t \in Tanks, b \in Bullets : ~flag'[Enemy(t)][b]
    BY EnemyIsATank DEF PressKEY0, TankReset
  <2> QED BY <2>1 DEF HitEndsVolley, Enemy
<1> QED BY <1>1, <1>2, <1>3, <1>4 DEF BattleInv

LEMMA BattleStep == BattleInv /\ [BattleNext]_battleVars => BattleInv'
<1> SUFFICES ASSUME BattleInv, [BattleNext]_battleVars
             PROVE  BattleInv'
  OBVIOUS
<1>1. CASE BattleFrame
  BY <1>1, EdgeKeepsInvariant DEF BattleFrame
<1>2. CASE PressKEY0
  BY <1>2, ResetKeepsInvariant
<1>3. CASE ReleaseKEY0
  BY <1>3, EdgeKeepsInvariant DEF ReleaseKEY0
<1>4. CASE WriteKeycode
  BY <1>4, RestKeepsInvariant DEF WriteKeycode
<1>5. CASE UNCHANGED battleVars
  BY <1>5, RestKeepsInvariant DEF battleVars
<1> QED BY <1>1, <1>2, <1>3, <1>4, <1>5 DEF BattleNext

(* The inductive invariant holds in every state of the game.               *)
THEOREM BattleInvariant == BattleSpec => []BattleInv
<1> QED BY BattleStart, BattleStep, PTL DEF BattleSpec

(* As long as the tanks are apart only bullets in flight hit               *)
(* (collision_handler.sv:55, ball.sv:1061-1065).                           *)
THEOREM OnlyShotsHit == BattleSpec => []HitsAreShots
<1>1. BattleInv => HitsAreShots
  BY WaitingBulletsMiss DEF BattleInv, HitsAreShots
<1> QED BY <1>1, BattleInvariant, PTL

(* A bullet costs its target one hit (health.sv:14, ball.sv:165-178).      *)
THEOREM VolleyEnds == BattleSpec => []HitEndsVolley
<1>1. BattleInv => HitEndsVolley
  BY DEF BattleInv
<1> QED BY <1>1, BattleInvariant, PTL

-----------------------------------------------------------------------------
(* The tanks of the game are the tanks of module Driver, with the frames   *)
(* in which the registers hold what the processor may write: what module   *)
(* TankProofs proves of them holds in the game.                            *)
THEOREM BattleImplementsDriver ==
  ASSUME Pads = [Slots -> Codes]
  PROVE  BattleSpec => DriverSpec
<1>1. BattleInit => DriverInit
  BY DEF BattleInit, DriverInit
<1>2. ASSUME PadOK, NEW reset, BattleEdge(reset)
      PROVE  SomeFrame
  <2>1. EnemyHit \in [Tanks -> BOOLEAN]
    BY <1>2, WiresAreBoolean DEF EnemyHit
  <2>2. DriverFrame(pad)
    BY <1>2, <2>1 DEF BattleEdge, DriverFrame
  <2> QED BY <1>2, <2>2 DEF SomeFrame, PadOK
<1>3. PadOK /\ [BattleNext]_battleVars => [DriverNext]_driverVars
  <2> SUFFICES ASSUME PadOK, [BattleNext]_battleVars
               PROVE  SomeFrame \/ DriverReset \/ UNCHANGED driverVars
    BY DEF DriverNext
  <2>1. CASE BattleFrame
    BY <2>1, <1>2 DEF BattleFrame
  <2>2. CASE PressKEY0
    BY <2>2 DEF PressKEY0, DriverReset
  <2>3. CASE ReleaseKEY0
    BY <2>3, <1>2 DEF ReleaseKEY0
  <2>4. CASE WriteKeycode
    BY <2>4 DEF WriteKeycode, driverVars
  <2>5. CASE UNCHANGED battleVars
    BY <2>5 DEF battleVars, driverVars
  <2> QED BY <2>1, <2>2, <2>3, <2>4, <2>5 DEF BattleNext
<1> QED BY <1>1, <1>3, PadInvariant, PTL DEF BattleSpec, DriverSpec

(* The bars of the game are the bars of module Health: what module         *)
(* HealthProofs proves of them holds in the game.                          *)
THEOREM BattleImplementsHealth == BattleSpec => HealthSpec
<1>1. BattleInit => HealthInit
  BY DEF BattleInit
<1>2. ASSUME NEW reset, BattleEdge(reset)
      PROVE  HealthFrame
  <2>1. GameReset(pad[0]) \in BOOLEAN /\ NoShields \in [Tanks -> BOOLEAN]
    BY DEF GameReset, NoShields
  <2> QED BY <1>2, <2>1, WiresAreBoolean DEF BattleEdge, HealthFrame
<1>3. [BattleNext]_battleVars => [HealthFrame]_healthVars
  BY <1>2 DEF BattleNext, BattleFrame, PressKEY0, ReleaseKEY0, WriteKeycode, battleVars
<1> QED BY <1>1, <1>3, PTL DEF BattleSpec, HealthSpec
=============================================================================
