\* The values of the source.
CONSTANTS
  Tanks = {1, 2}
  HitDamage = 10
  Hits = 5
  HealthModulus = 64
SPECIFICATION RoundSpec
PROPERTIES
  ExplosionNeedsDeath
  RematchIsFresh
  ImplementsMatch
  DeathEndsMatch
