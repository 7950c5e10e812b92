\* The comment at gamestatemachine.sv:13 against the frozen clock.
CONSTANTS
  Tanks = {1, 2}
  HitDamage = 10
  Hits = 5
  HealthModulus = 64
SPECIFICATION RoundSpec
PROPERTIES
  ButtonResetsGame
