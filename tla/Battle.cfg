\* Two tanks face to face with one bullet and one hit each: shots that cross, hits
\* at the same frame, last shots during the explosion, KEY0 and Y at any time.
CONSTANTS
  Tanks = {1, 2}
  Magazine = 1
  Cooldown = 1
  Modulus = 12
  TankSize = 2
  Muzzle = 1
  BulletStep = 3
  MapWidth = 6
  AddressSpace = 36
  HitDamage = 1
  Hits = 1
  HealthModulus = 2
  Inputs <- DuelInputs
  Start <- Opponents
  Walls <- DuelWalls
  BulletWalls <- EndWalls
SPECIFICATION BattleSpec
INVARIANTS
  HitsAreShots
  HitEndsVolley
PROPERTIES
  ImplementsRound
