\* One tank, a bar of two hits of 10 in a six bit register, the three bullets and the
\* three WAIT states of the source; a picture of five lines of four pixels, one line and
\* two pixels of them visible.
CONSTANTS
  Tanks = {1}
  HitDamage = 10
  Hits = 2
  HealthModulus = 64
  Magazine = 3
  Cooldown = 3
  hpixels = 3
  vlines = 4
  HVisible = 2
  VVisible = 1
  HSync <- MCHSync
  VSync <- MCVSync
SPECIFICATION DisplaySpec
INVARIANTS
  DisplayTypeOK
  NoHitPendingOnEmpty
  DeadOnlyWhenEmpty
  OneHitPerContact
  ShotNeedsRelease
  ShotsAreSpaced
PROPERTIES
  GameMovesInBlanking
  FramesAreEven
  DeathReachesTheGame
  GunComesBack
