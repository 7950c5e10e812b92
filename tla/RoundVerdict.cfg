\* The comment at gamestatemachine.sv:56 against the verdict of the code.
CONSTANTS
  Tanks = {1, 2}
  HitDamage = 10
  Hits = 5
  HealthModulus = 64
SPECIFICATION RoundSpec
PROPERTIES
  ScreenNamesTheWinner
